---- MODULE Spec2Model ----
(***************************************************************************)
(* Model of the yearbook auditor (backend/app/main.py): the text           *)
(* normaliser, the PT-BR numeric parser and the table rules.               *)
(*                                                                         *)
(* Strings are sequences of characters; a character is a one-letter TLA+   *)
(* string; the characters outside ASCII are written by name (NBSP, ...).   *)
(* A parsed number is kept as an exact decimal (sign, integer digits,      *)
(* fraction digits): the rounding of a Python float is not modelled, its   *)
(* overflow is.                                                            *)
(***************************************************************************)
EXTENDS Integers, Sequences, FiniteSets, TLC

VARIABLES
    s,        \* the string given to the normaliser and the parser
    cur,      \* that string after the normalisations made so far
    prev,     \* cur before the last normalisation
    passes,   \* normalisations made
    res,      \* what parse_number_ptbr returned
    table,    \* the table record under analysis
    issues,   \* the findings of the rule that ran
    ran,      \* the rule that ran
    base_year, \* the base year the audit was asked for
    doc,      \* the downloaded page: its text, tables and figures
    status,   \* how the audit endpoint answered
    pc

vars == <<s, cur, prev, passes, res, table, issues, ran, base_year, doc, status, pc>>

----------------------------------------------------------------------------
(* Bounds of the model *)

\* longest string of the exhaustive enumeration over Alphabet
MaxLen == 3
\* number of ".000" groups of the long thousand-grouped inputs
LongGroups == 103
\* most successive applications of normalize_text to one input
MaxPasses == 2

----------------------------------------------------------------------------
(* Characters and sequence helpers *)

NBSP == "NBSP"
TAB == "TAB"
\* U+2014, U+2013, U+2015, the euro and the pound sign
EMDASH == "EMDASH"
ENDASH == "ENDASH"
HBAR == "HBAR"
EURO == "EURO"
POUND == "POUND"

Digits == {"0", "1", "2", "3", "4", "5", "6", "7", "8", "9"}

DigitVal == [c \in Digits |->
               CASE c = "0" -> 0 [] c = "1" -> 1 [] c = "2" -> 2 [] c = "3" -> 3
                 [] c = "4" -> 4 [] c = "5" -> 5 [] c = "6" -> 6 [] c = "7" -> 7
                 [] c = "8" -> 8 [] c = "9" -> 9]

\* what str.strip() and the pattern \s take for white space
IsSpace(c) == c \in {" ", TAB, NBSP}

IsDigits(t) == Len(t) >= 1 /\ \A i \in 1..Len(t) : t[i] \in Digits

DropAll(t, C) == SelectSeq(t, LAMBDA c : c \notin C)

IndexOf(t, c) == IF \E i \in 1..Len(t) : t[i] = c
                 THEN CHOOSE i \in 1..Len(t) : t[i] = c /\ \A j \in 1..(i-1) : t[j] # c
                 ELSE 0

Zeros(k) == [i \in 1..k |-> "0"]

MaxOf(S) == CHOOSE x \in S : \A y \in S : y <= x
MinOf(S) == CHOOSE x \in S : \A y \in S : x <= y

\* the places of t that hold no white space
Inked(t) == {i \in 1..Len(t) : ~IsSpace(t[i])}

StripLeft(t) == IF Inked(t) = {} THEN <<>> ELSE SubSeq(t, MinOf(Inked(t)), Len(t))

StripRight(t) == IF Inked(t) = {} THEN <<>> ELSE SubSeq(t, 1, MaxOf(Inked(t)))

\* str.strip()
Strip(t) == StripRight(StripLeft(t))

\* s.replace("\xa0", " ")
ReplaceNbsp(t) == [i \in 1..Len(t) |-> IF t[i] = NBSP THEN " " ELSE t[i]]

\* the characters of t at the places idx, each white space as one space
SpacesAt(t, idx) == [k \in 1..Len(idx) |-> IF IsSpace(t[idx[k]]) THEN " " ELSE t[idx[k]]]

\* how far place i is into its run of white space, from 1
RunOffset(t, i) == i - MaxOf({0} \cup {j \in 1..i : ~IsSpace(t[j])})

\* the places where re.sub(r"\s\s", ...) starts a match or leaves a character
PairHeads(t) == SelectSeq([i \in 1..Len(t) |-> i],
                          LAMBDA i : ~IsSpace(t[i]) \/ RunOffset(t, i) % 2 = 1)

PairsAt(t, idx) ==
    [k \in 1..Len(idx) |-> IF idx[k] < Len(t) /\ IsSpace(t[idx[k]]) /\ IsSpace(t[idx[k] + 1])
                           THEN " " ELSE t[idx[k]]]

\* re.sub(r"\s\s", " ", s): collapses white space two characters at a time
CollapsePairs(t) == PairsAt(t, PairHeads(t))

\* re.sub(r"\s+", " ", s)
CollapseSpaces(t) ==
    SpacesAt(t, SelectSeq([i \in 1..Len(t) |-> i],
                          LAMBDA i : ~IsSpace(t[i]) \/ i = 1 \/ ~IsSpace(t[i - 1])))

normalize_text_pairs(t) == CollapsePairs(Strip(ReplaceNbsp(t)))

normalize_text(t) == CollapseSpaces(Strip(ReplaceNbsp(t)))

----------------------------------------------------------------------------
(* Letters, keys and word boundaries *)

Uppers == <<"A", "B", "C", "D", "E", "F", "G", "H", "I", "J", "K", "L", "M",
            "N", "O", "P", "Q", "R", "S", "T", "U", "V", "W", "X", "Y", "Z">>

Lowers == <<"a", "b", "c", "d", "e", "f", "g", "h", "i", "j", "k", "l", "m",
            "n", "o", "p", "q", "r", "s", "t", "u", "v", "w", "x", "y", "z">>

\* accented letters, written with the accent after the letter, and their
\* letter without it
Accented == <<"a~", "e'", "i'", "a'">>
Unaccented == <<"a", "e", "i", "a">>

Range(f) == {f[i] : i \in DOMAIN f}

\* str.lower()
LowerChar(c) == IF c \in Range(Uppers) THEN Lowers[CHOOSE i \in 1..26 : Uppers[i] = c] ELSE c

Lower(t) == [i \in 1..Len(t) |-> LowerChar(t[i])]

strip_accents(t) ==
    [i \in 1..Len(t) |-> IF t[i] \in Range(Accented)
                         THEN Unaccented[CHOOSE k \in 1..Len(Accented) : Accented[k] = t[i]]
                         ELSE t[i]]

\* the pattern \w
IsWordChar(c) == c \in Range(Uppers) \cup Range(Lowers) \cup Range(Accented) \cup Digits \cup {"_"}

normalize_key(t) ==
    LET low == strip_accents(Lower(normalize_text(t)))
        kept == SelectSeq(low, LAMBDA c : IsWordChar(c) \/ IsSpace(c) \/ c \in {"/", "-"})
    IN Strip(CollapseSpaces(kept))

\* the pattern \b at the gap before t[p], p in 1..Len(t)+1
WordBoundary(t, p) ==
    LET left == p > 1 /\ IsWordChar(t[p - 1])
        right == p <= Len(t) /\ IsWordChar(t[p])
    IN left # right

\* the lower-case word w stands at t[p..], in any letter case
WordAt(t, p, w) == p + Len(w) - 1 <= Len(t) /\ Lower(SubSeq(t, p, p + Len(w) - 1)) = w

\* the first index from p on whose character is not white space (Len(t)+1 if none)
RECURSIVE SkipSpaces(_, _)
SkipSpaces(t, p) == IF p <= Len(t) /\ IsSpace(t[p]) THEN SkipSpaces(t, p + 1) ELSE p

----------------------------------------------------------------------------
(* Numbers *)

EMPTY_MARKERS == {<<>>, <<EMDASH>>, <<ENDASH>>, <<"-">>, <<HBAR>>}

CurrencyChars == {"R", "$", EURO, POUND}

\* the places of d that hold no zero
NonZero(d) == {i \in 1..Len(d) : d[i] # "0"}

\* digits without the zeros int() ignores: at least one digit stays
StripLeadingZeros(d) ==
    IF NonZero(d) = {} THEN (IF d = <<>> THEN d ELSE <<"0">>)
    ELSE SubSeq(d, MinOf(NonZero(d)), Len(d))

StripTrailingZeros(d) == IF NonZero(d) = {} THEN <<>> ELSE SubSeq(d, 1, MaxOf(NonZero(d)))

None == [kind |-> "None", neg |-> FALSE, ip |-> <<>>, fp |-> <<>>]

Pending == [kind |-> "pending", neg |-> FALSE, ip |-> <<>>, fp |-> <<>>]

OverflowError == [kind |-> "raise", neg |-> FALSE, ip |-> <<>>, fp |-> <<>>]

Inf(neg) == [kind |-> "inf", neg |-> neg, ip |-> <<>>, fp |-> <<>>]

\* the number sign * ip.fp, in canonical form (-0.0 == 0.0 in Python)
Num(neg, ip, fp) ==
    LET i == StripLeadingZeros(ip)
        f == StripTrailingZeros(fp)
    IN [kind |-> "num", neg |-> neg /\ ~(i = <<"0">> /\ f = <<>>), ip |-> i, fp |-> f]

\* 2^1024 - 2^970: the least integer float() cannot hold
FloatOverflowThreshold ==
    <<
           "1", "7", "9", "7", "6", "9", "3", "1", "3", "4", "8", "6", "2", "3", "1", "5", "8", "0", "7", "9",
           "3", "7", "2", "8", "9", "7", "1", "4", "0", "5", "3", "0", "3", "4", "1", "5", "0", "7", "9", "9",
           "3", "4", "1", "3", "2", "7", "1", "0", "0", "3", "7", "8", "2", "6", "9", "3", "6", "1", "7", "3",
           "7", "7", "8", "9", "8", "0", "4", "4", "4", "9", "6", "8", "2", "9", "2", "7", "6", "4", "7", "5",
           "0", "9", "4", "6", "6", "4", "9", "0", "1", "7", "9", "7", "7", "5", "8", "7", "2", "0", "7", "0",
           "9", "6", "3", "3", "0", "2", "8", "6", "4", "1", "6", "6", "9", "2", "8", "8", "7", "9", "1", "0",
           "9", "4", "6", "5", "5", "5", "5", "4", "7", "8", "5", "1", "9", "4", "0", "4", "0", "2", "6", "3",
           "0", "6", "5", "7", "4", "8", "8", "6", "7", "1", "5", "0", "5", "8", "2", "0", "6", "8", "1", "9",
           "0", "8", "9", "0", "2", "0", "0", "0", "7", "0", "8", "3", "8", "3", "6", "7", "6", "2", "7", "3",
           "8", "5", "4", "8", "4", "5", "8", "1", "7", "7", "1", "1", "5", "3", "1", "7", "6", "4", "4", "7",
           "5", "7", "3", "0", "2", "7", "0", "0", "6", "9", "8", "5", "5", "5", "7", "1", "3", "6", "6", "9",
           "5", "9", "6", "2", "2", "8", "4", "2", "9", "1", "4", "8", "1", "9", "8", "6", "0", "8", "3", "4",
           "9", "3", "6", "4", "7", "5", "2", "9", "2", "7", "1", "9", "0", "7", "4", "1", "6", "8", "4", "4",
           "4", "3", "6", "5", "5", "1", "0", "7", "0", "4", "3", "4", "2", "7", "1", "1", "5", "5", "9", "6",
           "9", "9", "5", "0", "8", "0", "9", "3", "0", "4", "2", "8", "8", "0", "1", "7", "7", "9", "0", "4",
           "1", "7", "4", "4", "9", "7", "7", "9", "2" >>

\* a >= b, for digit strings without leading zeros
GEDigits(a, b) ==
    \/ Len(a) > Len(b)
    \/ /\ Len(a) = Len(b)
       /\ LET d == {i \in 1..Len(a) : a[i] # b[i]}
          IN d = {} \/ LET m == CHOOSE i \in d : \A j \in d : i <= j
                       IN DigitVal[a[m]] > DigitVal[b[m]]

TooBig(ip) == GEDigits(StripLeadingZeros(ip), FloatOverflowThreshold)

\* float(int(digits)), negated when neg: raises OverflowError on a huge integer
FloatOfInt(neg, ip) == IF TooBig(ip) THEN OverflowError ELSE Num(neg, ip, <<>>)

\* float("ip.fp"), negated when neg: a huge value is inf, nothing is raised
FloatOfStr(neg, ip, fp) == IF TooBig(ip) THEN Inf(neg) ELSE Num(neg, ip, fp)

\* try: ... except: return None
OrNone(r) == IF r.kind = "raise" THEN None ELSE r

\* ^\d{1,3}(\.\d{3})+$
THOUSAND_DOT_RE(t) ==
    LET k == IndexOf(t, ".")
    IN /\ k \in 2..4
       /\ (Len(t) - k + 1) % 4 = 0
       /\ \A i \in 1..Len(t) : IF i >= k /\ (i - k) % 4 = 0 THEN t[i] = "." ELSE t[i] \in Digits

\* ^\d{1,3}(\.\d{3})*,\d+$
PTBR_DECIMAL_RE(t) ==
    LET c == IndexOf(t, ",")
        head == SubSeq(t, 1, c - 1)
    IN /\ c >= 2
       /\ IsDigits(SubSeq(t, c + 1, Len(t)))
       /\ \/ IsDigits(head) /\ Len(head) <= 3
          \/ THOUSAND_DOT_RE(head)

\* ^\d+$
PlainIntRe(t) == IsDigits(t)

\* ^\d+\.\d+$
DecimalDotRe(t) ==
    LET k == IndexOf(t, ".")
    IN k >= 2 /\ IsDigits(SubSeq(t, 1, k - 1)) /\ IsDigits(SubSeq(t, k + 1, Len(t)))

\* t.startswith("(") and t.endswith(")")
InParens(t) == t # <<>> /\ Head(t) = "(" /\ t[Len(t)] = ")"

\* t[1:-1].strip() when t is in parentheses
Unwrap(t) == IF InParens(t) THEN Strip(SubSeq(t, 2, Len(t) - 1)) ELSE t

\* t.startswith("-")
HasMinus(t) == t # <<>> /\ Head(t) = "-"

\* the sign of t, and t without its parentheses and its leading '-'
Unsign(par, t) == [neg |-> par \/ HasMinus(t), core |-> IF HasMinus(t) THEN Strip(Tail(t)) ELSE t]

SignOf(t) == Unsign(InParens(t), Unwrap(t))

\* the sign and the rest with the currency characters left in place
SignAndCore_keep_currency(str) == SignOf(Strip(DropAll(normalize_text(str), {"%"})))

\* the string left after the percent signs, the currency characters and the
\* sign are removed, with the sign found
SignAndCore(str) ==
    SignOf(Strip(DropAll(Strip(DropAll(normalize_text(str), {"%"})), CurrencyChars)))

\* the four patterns in the order the code tries them
MatchInOrder(neg, t) ==
    IF THOUSAND_DOT_RE(t) THEN FloatOfInt(neg, DropAll(t, {"."}))
    ELSE IF PTBR_DECIMAL_RE(t)
         THEN LET c == IndexOf(t, ",")
              IN OrNone(FloatOfStr(neg, DropAll(SubSeq(t, 1, c - 1), {"."}),
                                   SubSeq(t, c + 1, Len(t))))
    ELSE IF PlainIntRe(t) THEN OrNone(FloatOfInt(neg, t))
    ELSE IF DecimalDotRe(t)
         THEN LET k == IndexOf(t, ".")
              IN OrNone(FloatOfStr(neg, SubSeq(t, 1, k - 1), SubSeq(t, k + 1, Len(t))))
    ELSE None

MatchSigned(sc) == MatchInOrder(sc.neg, sc.core)

parse_number_ptbr(str) ==
    IF normalize_text(str) \in EMPTY_MARKERS THEN None ELSE MatchSigned(SignAndCore(str))

----------------------------------------------------------------------------
(* Tables and findings *)

\* the fields of a table record the rules read
Table(nome, headers, rows, ctx) ==
    [nome |-> nome, headers |-> headers, rows_raw |-> rows, context_all |-> ctx]

NoTable == Table(<<>>, <<>>, <<>>, <<>>)

\* what the audit reads of a page: whether any HTML came, its rendered text,
\* its <table> elements and its <figure> elements, in document order
Doc(html, text, tables, figures) ==
    [html |-> html, text |-> text, tables |-> tables, figures |-> figures]

NoDoc == Doc(FALSE, <<>>, <<>>, <<>>)

\* a finding; detail holds the evidence the rule writes into its message
make_issue(severity, kind, ident, rule, detail) ==
    [severity |-> severity, kind |-> kind, table |-> ident, rule |-> rule, detail |-> detail]

W_fonte == <<"f", "o", "n", "t", "e">>
W_nota == <<"n", "o", "t", "a">>
W_observa == <<"o", "b", "s", "e", "r", "v", "a">>
W_obs == <<"o", "b", "s">>

SourceSeparators == {":", "-", ENDASH, EMDASH}

\* \bFonte\b\s*[:\-...]\s* matches at p: the index after the match, or 0
SourceHeadEnd(t, p) ==
    IF WordAt(t, p, W_fonte) /\ WordBoundary(t, p) /\ WordBoundary(t, p + 5)
    THEN LET q == SkipSpaces(t, p + 5)
         IN IF q <= Len(t) /\ t[q] \in SourceSeparators THEN q + 1 ELSE 0
    ELSE 0

\* the lookahead (?=$|\bNota\b|\bObserva|\bObs\b) holds at the gap before t[p]
SourceStop(t, p) ==
    \/ p = Len(t) + 1
    \/ WordBoundary(t, p) /\ WordAt(t, p, W_nota) /\ WordBoundary(t, p + 4)
    \/ WordBoundary(t, p) /\ WordAt(t, p, W_observa)
    \/ WordBoundary(t, p) /\ WordAt(t, p, W_obs) /\ WordBoundary(t, p + 3)

\* the text of the first "Fonte: ..." of the context, or <<>> (None) if none
find_source_text(context) ==
    LET t == context
        starts == {p \in 1..Len(t) : SourceHeadEnd(t, p) # 0 /\ SourceHeadEnd(t, p) <= Len(t)}
    IN IF starts = {} THEN <<>>
       ELSE LET p == CHOOSE x \in starts : \A y \in starts : x <= y
                h == SourceHeadEnd(t, p)
                \* \s* is greedy but leaves .+? one character
                body == IF SkipSpaces(t, h) <= Len(t) THEN SkipSpaces(t, h) ELSE Len(t)
                stops == {e \in (body + 1)..(Len(t) + 1) : SourceStop(t, e)}
                e == CHOOSE x \in stops : \A y \in stops : x <= y
            IN normalize_text(SubSeq(t, p, e - 1))

\* a rule that lets the source pass when only the word Fonte is found
rule_source_required_word_only(tb) ==
    IF \E p \in 1..Len(tb.context_all) : WordAt(tb.context_all, p, W_fonte)
    THEN <<>>
    ELSE <<make_issue("FAIL", "Tabela", tb.nome, "table_source_required", <<>>)>>

\* the findings of the rule: none or one
rule_source_required(tb) ==
    IF find_source_text(tb.context_all) = <<>>
    THEN <<make_issue("FAIL", "Tabela", tb.nome, "table_source_required", <<>>)>>
    ELSE <<>>

----------------------------------------------------------------------------
(* Arithmetic on parsed numbers: a value is counted in units of            *)
(* 10^-FracPlaces, which the cells of the model's tables never exceed.     *)

FracPlaces == 1

RECURSIVE Pow10(_)
Pow10(n) == IF n = 0 THEN 1 ELSE 10 * Pow10(n - 1)

UnitsPerOne == Pow10(FracPlaces)

RECURSIVE NatOf(_)
NatOf(d) == IF d = <<>> THEN 0 ELSE 10 * NatOf(SubSeq(d, 1, Len(d) - 1)) + DigitVal[d[Len(d)]]

\* the value of a number of kind "num", in units
Units(r) ==
    LET f == SubSeq(r.fp \o Zeros(FracPlaces), 1, FracPlaces)
        u == NatOf(r.ip) * UnitsPerOne + NatOf(f)
    IN IF r.neg THEN 0 - u ELSE u

Abs(x) == IF x < 0 THEN 0 - x ELSE x

RECURSIVE SeqSum(_)
SeqSum(q) == IF q = <<>> THEN 0 ELSE Head(q) + SeqSum(Tail(q))

\* f"{x:.0f}": x in units, rounded to a whole number, halves to even
Fmt0(u) ==
    LET a == Abs(u)
        w == a \div UnitsPerOne
        r == a % UnitsPerOne
        up == 2 * r > UnitsPerOne \/ (2 * r = UnitsPerOne /\ w % 2 = 1)
        n == IF up THEN w + 1 ELSE w
    IN IF u < 0 THEN 0 - n ELSE n

\* n = parse_number_ptbr(cell): whether n is not None, and n in units
NumberOf(n) == IF n = None THEN [ok |-> FALSE, u |-> 0] ELSE [ok |-> TRUE, u |-> Units(n)]

CellNumber(cell) == NumberOf(parse_number_ptbr(cell))

\* the cells of the rows, parsed
Numbers(rows) == [i \in 1..Len(rows) |-> [c \in 1..Len(rows[i]) |-> CellNumber(rows[i][c])]]

\* the numbers of column c (from 1) of the parsed rows, in units
ColumnValues(nums, c) ==
    LET cells == SelectSeq(nums, LAMBDA r : c <= Len(r) /\ r[c].ok)
    IN [i \in 1..Len(cells) |-> cells[i][c].u]

----------------------------------------------------------------------------
(* rule_totals. Rows and columns are counted from 1; index 0 is None. *)

TOTAL_WORDS == {<<"t", "o", "t", "a", "l">>,
                <<"s", "u", "b", "t", "o", "t", "a", "l">>,
                <<"t", "o", "t", "a", "i", "s">>,
                <<"g", "e", "r", "a", "l">>,
                <<"t", "o", "t", "a", "l", " ", "g", "e", "r", "a", "l">>}

EndsWith(t, suffix) ==
    Len(t) >= Len(suffix) /\ SubSeq(t, Len(t) - Len(suffix) + 1, Len(t)) = suffix

FirstIndex(S) == IF S = {} THEN 0 ELSE CHOOSE i \in S : \A j \in S : i <= j

\* a finder that takes the last row for the total when no row is labelled
find_total_row_index_by_shape(rows) ==
    LET S == {i \in 1..Len(rows) : rows[i] # <<>> /\ normalize_key(rows[i][1]) \in TOTAL_WORDS}
    IN IF S = {} THEN Len(rows) ELSE FirstIndex(S)

find_total_row_index(rows) ==
    FirstIndex({i \in 1..Len(rows) : rows[i] # <<>> /\ normalize_key(rows[i][1]) \in TOTAL_WORDS})

find_total_col_index(headers) ==
    FirstIndex({i \in 1..Len(headers) :
                   \/ normalize_key(headers[i]) \in TOTAL_WORDS
                   \/ EndsWith(normalize_key(headers[i]), <<" ", "t", "o", "t", "a", "l">>)})

\* col_numeric_ratio(i) >= 0.5
IsNumericCol(nums, c) ==
    LET n == Len(ColumnValues(nums, c))
    IN n > 0 /\ 2 * n >= (IF Len(nums) > 1 THEN Len(nums) ELSE 1)

\* abs(calc - reported) > 1: a tolerance of one whole unit
TotalsDiverge_tol1(calc, reported) == Abs(calc - reported) > UnitsPerOne

\* abs(calc - reported) > 0.5
TotalsDiverge(calc, reported) == 2 * Abs(calc - reported) > UnitsPerOne

TotalsDetail(subject, calc, reported) ==
    [subject |-> subject, calc |-> Fmt0(calc), reported |-> Fmt0(reported)]

\* the findings of the total row, one column after the other
RECURSIVE TotalRowIssues(_, _, _, _)
TotalRowIssues(tb, nums, total_row, c) ==
    IF c > Len(tb.headers) THEN <<>>
    ELSE LET declared == c <= Len(nums[total_row]) /\ nums[total_row][c].ok
             above == ColumnValues(SubSeq(nums, 1, total_row - 1), c)
             here == IF /\ IsNumericCol(nums, c)
                        /\ declared
                        /\ Len(above) >= 1
                        /\ TotalsDiverge(SeqSum(above), nums[total_row][c].u)
                     THEN <<make_issue("FAIL", "Tabela", tb.nome, "total_row_mismatch",
                                       TotalsDetail(tb.headers[c], SeqSum(above), nums[total_row][c].u))>>
                     ELSE <<>>
         IN here \o TotalRowIssues(tb, nums, total_row, c + 1)

\* the numbers of parsed row r in the numeric columns other than the total column
RowValues(tb, nums, r, total_col) ==
    LET cols == SelectSeq([i \in 1..Len(tb.headers) |-> i],
                          LAMBDA c : /\ c >= 2
                                     /\ IsNumericCol(nums, c)
                                     /\ c # total_col
                                     /\ c <= Len(r)
                                     /\ r[c].ok)
    IN [i \in 1..Len(cols) |-> r[cols[i]].u]

\* the findings of the total column, one row after the other
RECURSIVE TotalColIssues(_, _, _, _, _)
TotalColIssues(tb, nums, total_row, total_col, i) ==
    IF i > Len(tb.rows_raw) THEN <<>>
    ELSE LET r == tb.rows_raw[i]
             checked == /\ r # <<>>
                        /\ i # total_row
                        /\ normalize_key(r[1]) \notin TOTAL_WORDS
                        /\ total_col <= Len(r)
                        /\ nums[i][total_col].ok
             vals == RowValues(tb, nums, nums[i], total_col)
             here == IF checked /\ Len(vals) >= 2
                                /\ TotalsDiverge(SeqSum(vals), nums[i][total_col].u)
                     THEN <<make_issue("FAIL", "Tabela", tb.nome, "total_col_mismatch",
                                       TotalsDetail(normalize_text(r[1]), SeqSum(vals),
                                                    nums[i][total_col].u))>>
                     ELSE <<>>
         IN here \o TotalColIssues(tb, nums, total_row, total_col, i + 1)

rule_totals(tb) ==
    LET total_row == find_total_row_index(tb.rows_raw)
        total_col == find_total_col_index(tb.headers)
        nums == Numbers(tb.rows_raw)
    IN IF tb.headers = <<>> \/ tb.rows_raw = <<>> THEN <<>>
       ELSE IF total_row = 0 /\ total_col = 0 THEN <<>>
       ELSE (IF total_row # 0 THEN TotalRowIssues(tb, nums, total_row, 2) ELSE <<>>)
            \o (IF total_col # 0 THEN TotalColIssues(tb, nums, total_row, total_col, 1) ELSE <<>>)

----------------------------------------------------------------------------
(* Years and the time-series gate *)

\* ^20\d{2}$
YearRe(t) == Len(t) = 4 /\ t[1] = "2" /\ t[2] = "0" /\ t[3] \in Digits /\ t[4] \in Digits

\* t[p..p+3] is 20dd
YearAt(t, p) == p >= 1 /\ p + 3 <= Len(t) /\ YearRe(SubSeq(t, p, p + 3))

\* the separators of a year range, in the order the pattern tries them
RangeWords == <<<<"a">>, <<"a", "t", "e'">>, <<ENDASH>>, <<"-">>>>

\* \b(20\d{2})\s*(?:a|ate|-|-)\s*(20\d{2})\b matched from p: <<a, b>> or <<>>
YearRangeAt(t, p) ==
    IF ~(YearAt(t, p) /\ WordBoundary(t, p)) THEN <<>>
    ELSE LET q == SkipSpaces(t, p + 4)
             ok(k) == /\ WordAt(t, q, RangeWords[k])
                      /\ LET r == SkipSpaces(t, q + Len(RangeWords[k]))
                         IN YearAt(t, r) /\ WordBoundary(t, r + 4)
             ks == {k \in 1..Len(RangeWords) : ok(k)}
         IN IF ks = {} THEN <<>>
            ELSE LET k == CHOOSE x \in ks : \A y \in ks : x <= y
                     r == SkipSpaces(t, q + Len(RangeWords[k]))
                 IN <<NatOf(SubSeq(t, p, p + 3)), NatOf(SubSeq(t, r, r + 3))>>

\* the first year range of the text, or <<>> (None)
detect_year_range(text) ==
    LET t == normalize_text(text)
        ps == {p \in 1..Len(t) : YearRangeAt(t, p) # <<>>}
    IN IF ps = {} THEN <<>> ELSE YearRangeAt(t, CHOOSE p \in ps : \A x \in ps : p <= x)

YearCols(headers) == SelectSeq([i \in 1..Len(headers) |-> i],
                               LAMBDA i : YearRe(normalize_text(headers[i])))

is_time_series_table(tb) ==
    LET first_col == SelectSeq(tb.rows_raw, LAMBDA r : r # <<>> /\ normalize_text(r[1]) # <<>>)
        year_like == Len(SelectSeq(first_col, LAMBDA r : YearRe(normalize_text(r[1]))))
        floor60 == (6 * Len(first_col)) \div 10
    IN IF Len(YearCols(tb.headers)) >= 2 THEN [ts |-> TRUE, reason |-> "year_columns"]
       ELSE IF detect_year_range(tb.nome) # <<>> \/ detect_year_range(tb.context_all) # <<>>
            THEN [ts |-> TRUE, reason |-> "range_in_title"]
       ELSE IF tb.rows_raw # <<>> /\ year_like >= (IF floor60 > 2 THEN floor60 ELSE 2)
            THEN [ts |-> TRUE, reason |-> "year_in_first_column"]
       ELSE [ts |-> FALSE, reason |-> ""]

----------------------------------------------------------------------------
(* rule_extreme_variation *)

\* sorted(q, key = year): q holds pairs <<what, year>>; equal years keep their order
RECURSIVE SortByYear(_)
SortByYear(q) ==
    IF q = <<>> THEN q
    ELSE LET rest == SortByYear(SubSeq(q, 1, Len(q) - 1))
             x == q[Len(q)]
             n == Len(SelectSeq(rest, LAMBDA y : y[2] <= x[2]))
         IN SubSeq(rest, 1, n) \o <<x>> \o SubSeq(rest, n + 1, Len(rest))

VariationDetail(subject, y0, v0, y1, v1) ==
    [subject |-> subject, y0 |-> y0, v0 |-> Fmt0(v0), y1 |-> y1, v1 |-> Fmt0(v1)]

\* the change measured against the later value instead of the earlier
PairIssue_over_later(tb, subject, a, b) ==
    LET v0 == a[2]
        v1 == b[2]
        d == VariationDetail(subject, a[1], v0, b[1], v1)
        over(p) == 100 * Abs(v1 - v0) > p * Abs(v1)
    IN IF v0 = 0
       THEN IF v1 >= 100 * UnitsPerOne
            THEN <<make_issue("WARN", "Tabela", tb.nome, "jump_from_zero", d)>> ELSE <<>>
       ELSE IF over(500) THEN <<make_issue("FAIL", "Tabela", tb.nome, "extreme_year_variation", d)>>
       ELSE IF over(300) THEN <<make_issue("WARN", "Tabela", tb.nome, "extreme_year_variation", d)>>
       ELSE IF over(40) THEN <<make_issue("WARN", "Tabela", tb.nome, "abrupt_change", d)>>
       ELSE <<>>

\* a jump from zero reported for any rise, however small
PairIssue_jump_any_rise(tb, subject, a, b) ==
    LET v0 == a[2]
        v1 == b[2]
        d == VariationDetail(subject, a[1], v0, b[1], v1)
        over(p) == 100 * Abs(v1 - v0) > p * Abs(v0)
    IN IF v0 = 0
       THEN IF v1 > 0
            THEN <<make_issue("WARN", "Tabela", tb.nome, "jump_from_zero", d)>> ELSE <<>>
       ELSE IF over(500) THEN <<make_issue("FAIL", "Tabela", tb.nome, "extreme_year_variation", d)>>
       ELSE IF over(300) THEN <<make_issue("WARN", "Tabela", tb.nome, "extreme_year_variation", d)>>
       ELSE IF over(40) THEN <<make_issue("WARN", "Tabela", tb.nome, "abrupt_change", d)>>
       ELSE <<>>

\* the finding of one pair of successive points a = <<y0, v0>>, b = <<y1, v1>>
PairIssue(tb, subject, a, b) ==
    LET v0 == a[2]
        v1 == b[2]
        d == VariationDetail(subject, a[1], v0, b[1], v1)
        \* abs((v1 - v0) / v0 * 100) > p
        over(p) == 100 * Abs(v1 - v0) > p * Abs(v0)
    IN IF v0 = 0
       THEN IF v1 >= 100 * UnitsPerOne
            THEN <<make_issue("WARN", "Tabela", tb.nome, "jump_from_zero", d)>> ELSE <<>>
       ELSE IF over(500) THEN <<make_issue("FAIL", "Tabela", tb.nome, "extreme_year_variation", d)>>
       ELSE IF over(300) THEN <<make_issue("WARN", "Tabela", tb.nome, "extreme_year_variation", d)>>
       ELSE IF over(40) THEN <<make_issue("WARN", "Tabela", tb.nome, "abrupt_change", d)>>
       ELSE <<>>

\* the findings of the successive pairs of a series of points
RECURSIVE SeriesIssues(_, _, _)
SeriesIssues(tb, subject, points) ==
    IF Len(points) < 2 THEN <<>>
    ELSE PairIssue(tb, subject, points[1], points[2]) \o SeriesIssues(tb, subject, Tail(points))

\* case A: the years are columns; the points of row r, by year
RowPoints(headers, r) ==
    LET cols == SortByYear([k \in 1..Len(YearCols(headers)) |->
                               <<YearCols(headers)[k], NatOf(headers[YearCols(headers)[k]])>>])
        nums == [c \in 1..Len(r) |-> CellNumber(r[c])]
        have == SelectSeq(cols, LAMBDA x : x[1] <= Len(r) /\ nums[x[1]].ok)
    IN [k \in 1..Len(have) |-> <<have[k][2], nums[have[k][1]].u>>]

RECURSIVE YearColumnIssues(_, _)
YearColumnIssues(tb, i) ==
    IF i > Len(tb.rows_raw) THEN <<>>
    ELSE LET r == tb.rows_raw[i]
             here == IF r = <<>> THEN <<>>
                     ELSE SeriesIssues(tb, normalize_text(r[1]), RowPoints(tb.headers, r))
         IN here \o YearColumnIssues(tb, i + 1)

\* case B: the years are the first cells; the rows that start with a year, by year
YearRows(rows) ==
    LET yr == SelectSeq(rows, LAMBDA r : r # <<>> /\ YearRe(normalize_text(r[1])))
        sorted == SortByYear([k \in 1..Len(yr) |-> <<yr[k], NatOf(normalize_text(yr[k][1]))>>])
    IN sorted

ColumnPoints(yrows, c) ==
    LET inCol == SelectSeq(yrows, LAMBDA x : c <= Len(x[1]))
        nums == [k \in 1..Len(inCol) |-> <<inCol[k][2], CellNumber(inCol[k][1][c])>>]
        have == SelectSeq(nums, LAMBDA x : x[2].ok)
    IN [k \in 1..Len(have) |-> <<have[k][1], have[k][2].u>>]

RECURSIVE YearRowIssues(_, _, _, _)
YearRowIssues(tb, yrows, c, last) ==
    IF c > last THEN <<>>
    ELSE SeriesIssues(tb, tb.headers[c], ColumnPoints(yrows, c))
         \o YearRowIssues(tb, yrows, c + 1, last)

rule_extreme_variation(tb) ==
    IF tb.headers = <<>> \/ tb.rows_raw = <<>> THEN <<>>
    ELSE IF ~is_time_series_table(tb).ts THEN <<>>
    ELSE IF Len(YearCols(tb.headers)) >= 2 THEN YearColumnIssues(tb, 1)
    ELSE LET yrows == YearRows(tb.rows_raw)
         IN IF Len(yrows) >= 2 /\ Len(tb.headers) >= 2
            THEN YearRowIssues(tb, yrows, 2,
                               MinOf({Len(tb.headers), MaxOf({Len(yrows[k][1]) : k \in 1..Len(yrows)})}))
            ELSE <<>>

----------------------------------------------------------------------------
(* rule_duplicate_rows_strict *)

_row_label(row) == IF row = <<>> THEN <<>> ELSE normalize_text(row[1])

\* a signature that leaves the label out
RowSignature_values_only(r) == [k \in 1..(Len(r) - 1) |-> normalize_text(r[k + 1])]

\* the signature of a row: its label's key, then its other cells
RowSignature(r) == <<normalize_key(_row_label(r))>> \o [k \in 1..(Len(r) - 1) |-> normalize_text(r[k + 1])]

\* the finding of the first row that repeats an earlier one: none or one
rule_duplicate_rows_strict(tb) ==
    LET rows == tb.rows_raw
        repeats == {i \in 1..Len(rows) :
                       /\ rows[i] # <<>>
                       /\ normalize_key(_row_label(rows[i])) # <<>>
                       /\ \E j \in 1..(i - 1) : rows[j] # <<>> /\ RowSignature(rows[j]) = RowSignature(rows[i])}
    IN IF Len(rows) < 2 \/ repeats = {} THEN <<>>
       ELSE LET i == MinOf(repeats)
                j == MaxOf({x \in 1..(i - 1) : rows[x] # <<>> /\ RowSignature(rows[x]) = RowSignature(rows[i])})
            IN <<make_issue("WARN", "Tabela", tb.nome, "duplicated_row",
                            [first |-> j, second |-> i, label |-> normalize_text(rows[i][1])])>>

----------------------------------------------------------------------------
(* The scans of the cells: rule_table_empty, rule_table_without_data,      *)
(* rule_blank_cells                                                        *)

\* the places <<row, column>> of the cells, row after row
RECURSIVE CellPlaces(_, _)
CellPlaces(rows, i) ==
    IF i > Len(rows) THEN <<>>
    ELSE [j \in 1..Len(rows[i]) |-> <<i, j>>] \o CellPlaces(rows, i + 1)

\* [c for r in rows for c in r]
CellsAt(rows, places) == [k \in 1..Len(places) |-> rows[places[k][1]][places[k][2]]]

AllCells(rows) == CellsAt(rows, CellPlaces(rows, 1))

\* parse_number_ptbr of every cell, in the order of the scan
ParseAll(cells) == [k \in 1..Len(cells) |-> parse_number_ptbr(cells[k])]

ParsedCells(rows) == ParseAll(AllCells(rows))

\* the scan of rule_table_empty is left by an exception of the parser
ScanRaises(parsed) == \E k \in 1..Len(parsed) : parsed[k].kind = "raise"

\* the decimal places of 1e-12
ZeroPlaces == 12

\* abs(n) < 1e-12
IsTiny(n) ==
    /\ n.kind = "num"
    /\ n.ip = <<"0">>
    /\ \/ n.fp = <<>>
       \/ Len(n.fp) > ZeroPlaces /\ \A i \in 1..ZeroPlaces : n.fp[i] = "0"

AllTiny(nums) == \A k \in 1..Len(nums) : IsTiny(nums[k])

TableEmptyIssues(tb, nums) ==
    IF tb.rows_raw = <<>> THEN <<make_issue("FAIL", "Tabela", tb.nome, "table_empty", <<>>)>>
    ELSE IF nums # <<>> /\ AllTiny(nums)
         THEN <<make_issue("FAIL", "Tabela", tb.nome, "table_all_zero", <<>>)>>
    ELSE <<>>

\* the findings of the rule: none or one
rule_table_empty(tb) ==
    TableEmptyIssues(tb, SelectSeq(ParsedCells(tb.rows_raw), LAMBDA n : n # None))

WithoutDataIssues(tb, parsed) ==
    IF tb.rows_raw = <<>> THEN <<>>
    ELSE IF \A k \in 1..Len(parsed) : parsed[k] = None
         THEN <<make_issue("FAIL", "Tabela", tb.nome, "table_without_data", <<>>)>>
    ELSE <<>>

\* the findings of the rule: none or one
rule_table_without_data(tb) == WithoutDataIssues(tb, ParsedCells(tb.rows_raw))

is_empty_cell(str) == normalize_text(str) \in EMPTY_MARKERS

ND_WORDS == {<<"n", "d">>, <<"n", ".", "d", ".">>,
             <<"n", "a~", "o", " ", "d", "i", "s", "p", "o", "n", "i'", "v", "e", "l">>,
             <<"n", "a", "o", " ", "d", "i", "s", "p", "o", "n", "i", "v", "e", "l">>,
             <<"n", "/", "a">>, <<"n", "a">>,
             <<"n", "a~", "o", " ", "i", "n", "f", "o", "r", "m", "a", "d", "o">>,
             <<"n", "a", "o", " ", "i", "n", "f", "o", "r", "m", "a", "d", "o">>}

is_nd_cell(str) == normalize_key(str) \in {normalize_key(x) : x \in ND_WORDS}

W_nd == <<"n", "d">>
W_dado == <<"d", "a", "d", "o">>

\* \bND\b\s*[:\-...]\s*(dado|dados).* is found in the text, in any letter case
HasNdNote(t) ==
    \E p \in 1..Len(t) :
        /\ WordBoundary(t, p) /\ WordAt(t, p, W_nd) /\ WordBoundary(t, p + 2)
        /\ SkipSpaces(t, p + 2) <= Len(t)
        /\ t[SkipSpaces(t, p + 2)] \in SourceSeparators
        /\ WordAt(t, SkipSpaces(t, SkipSpaces(t, p + 2) + 1), W_dado)

\* the places the message of rule_blank_cells names at most
SampleCap == 6

\* the mark of the cell at a place: "blank", "nd" or "none"
CellMark(cell) == IF is_empty_cell(cell) THEN "blank" ELSE IF is_nd_cell(cell) THEN "nd" ELSE "none"

\* the marked places in the order of the scan, as <<mark, row, column>>
MarkedPlaces(rows, places) ==
    SelectSeq([k \in 1..Len(places) |->
                  <<CellMark(rows[places[k][1]][places[k][2]]), places[k][1], places[k][2]>>],
              LAMBDA m : m[1] # "none")

BlankIssues(tb, marked) ==
    LET blanks == Len(SelectSeq(marked, LAMBDA m : m[1] = "blank"))
        nds == Len(SelectSeq(marked, LAMBDA m : m[1] = "nd"))
        samples == SubSeq(marked, 1, MinOf({SampleCap, Len(marked)}))
    IN (IF blanks > 0
        THEN <<make_issue("WARN", "Tabela", tb.nome, "blank_cells",
                          [blanks |-> blanks, samples |-> samples])>>
        ELSE <<>>)
       \o (IF nds > 0
           THEN <<make_issue(IF HasNdNote(tb.context_all) THEN "WARN" ELSE "FAIL",
                             "Tabela", tb.nome, "nd_cells",
                             [nds |-> nds, has_note |-> HasNdNote(tb.context_all)])>>
           ELSE <<>>)

rule_blank_cells(tb) ==
    IF tb.rows_raw = <<>> THEN <<>>
    ELSE BlankIssues(tb, MarkedPlaces(tb.rows_raw, CellPlaces(tb.rows_raw, 1)))

----------------------------------------------------------------------------
(* rule_source_style_inconsistency and rule_numeric_format_inconsistency *)

W_FONTES == <<"F", "O", "N", "T", "E", "S">>
W_Fonte == <<"F", "o", "n", "t", "e">>

\* the letters w stand at t[p..], in this letter case
TextAt(t, p, w) == p >= 1 /\ p + Len(w) - 1 <= Len(t) /\ SubSeq(t, p, p + Len(w) - 1) = w

\* \bFONTES\b|\bFonte\s{2,}: is found in the text
OddSourceWord(t) ==
    \E p \in 1..Len(t) :
        /\ WordBoundary(t, p)
        /\ \/ TextAt(t, p, W_FONTES) /\ WordBoundary(t, p + 6)
           \/ /\ TextAt(t, p, W_Fonte)
              /\ SkipSpaces(t, p + 5) >= p + 7
              /\ SkipSpaces(t, p + 5) <= Len(t)
              /\ t[SkipSpaces(t, p + 5)] = ":"

rule_source_style_inconsistency(tb) ==
    IF tb.context_all # <<>> /\ OddSourceWord(tb.context_all)
    THEN <<make_issue("WARN", "Tabela", tb.nome, "source_format_inconsistency", <<>>)>>
    ELSE <<>>

\* ^\d{4,}$
Plain4Plus(t) == IsDigits(t) /\ Len(t) >= 4

\* a mix of "1290" and "1.290" among the values
detect_thousand_inconsistency(values) ==
    /\ \E k \in 1..Len(values) : Plain4Plus(normalize_text(values[k]))
    /\ \E k \in 1..Len(values) : THOUSAND_DOT_RE(normalize_text(values[k]))

\* DECIMAL_DOT_RE.search(t): \b\d+\.\d+\b is found in t
DECIMAL_DOT_RE(t) ==
    \E i \in 1..Len(t) : \E k \in (i + 1)..Len(t) : \E j \in (k + 1)..Len(t) :
        /\ t[k] = "."
        /\ IsDigits(SubSeq(t, i, k - 1)) /\ IsDigits(SubSeq(t, k + 1, j))
        /\ WordBoundary(t, i) /\ WordBoundary(t, j + 1)

\* the examples the message of the rule names at most
SuspiciousCap == 5

\* the cells written digits.digits that are no thousands, normalised
Suspicious(cells) ==
    SelectSeq([k \in 1..Len(cells) |-> normalize_text(cells[k])],
              LAMBDA t : DecimalDotRe(t) /\ ~THOUSAND_DOT_RE(t))

NumericFormatIssues(tb, cells) ==
    IF detect_thousand_inconsistency(cells)
    THEN <<make_issue("WARN", "Tabela", tb.nome, "thousand_separator_inconsistency", <<>>)>>
    ELSE IF (\E k \in 1..Len(cells) : DECIMAL_DOT_RE(normalize_text(cells[k])))
            /\ Suspicious(cells) # <<>>
         THEN <<make_issue("WARN", "Tabela", tb.nome, "decimal_dot",
                           SubSeq(Suspicious(cells), 1, MinOf({SuspiciousCap, Len(Suspicious(cells))})))>>
    ELSE <<>>

\* the findings of the rule: none or one
rule_numeric_format_inconsistency(tb) ==
    IF tb.rows_raw = <<>> THEN <<>> ELSE NumericFormatIssues(tb, AllCells(tb.rows_raw))

----------------------------------------------------------------------------
(* rule_year_base_mentions *)

\* the years of the text, in the order they stand: \b(20\d{2})\b
detect_years_in_text(text) ==
    LET t == normalize_text(text)
        ps == SelectSeq([p \in 1..Len(t) |-> p],
                        LAMBDA p : YearAt(t, p) /\ WordBoundary(t, p) /\ WordBoundary(t, p + 4))
    IN [k \in 1..Len(ps) |-> NatOf(SubSeq(t, ps[k], ps[k] + 3))]

\* sorted(S), for a set of numbers
RECURSIVE Sorted(_)
Sorted(S) == IF S = {} THEN <<>> ELSE <<MinOf(S)>> \o Sorted(S \ {MinOf(S)})

\* detect_year_range(name) or detect_year_range(ctx)
RangeOf(tb) ==
    IF detect_year_range(tb.nome) # <<>> THEN detect_year_range(tb.nome)
    ELSE detect_year_range(tb.context_all)

Between(a, b, y) == MinOf({a, b}) <= y /\ y <= MaxOf({a, b})

\* the rule with the years and the range already read
YearBaseIssues(tb, by, years, rng, is_ts) ==
    IF years = {} THEN <<>>
    ELSE IF rng # <<>> /\ is_ts
         THEN IF ~Between(rng[1], rng[2], by)
              THEN <<make_issue("FAIL", "Tabela", tb.nome, "year_range_mismatch",
                                [a |-> rng[1], b |-> rng[2], base_year |-> by])>>
              ELSE <<>>
    ELSE IF ~is_ts /\ years \ {by} # {}
         THEN <<make_issue("WARN", "Tabela", tb.nome, "year_outside_base",
                           [other_years |-> Sorted(years \ {by}), base_year |-> by])>>
    ELSE <<>>

\* the findings of the rule: none or one
rule_year_base_mentions(tb, by) ==
    YearBaseIssues(tb, by, Range(detect_years_in_text(tb.nome \o <<" ">> \o tb.context_all)),
                   RangeOf(tb), is_time_series_table(tb).ts)

----------------------------------------------------------------------------
(* rule_siglas_nomenclature *)

\* the characters the code takes for broken ones, in the order it tries them
BROKEN_CHARS == <<" ", " ">>

Contains(t, w) == \E p \in 1..Len(t) : TextAt(t, p, w)

\* the finding of a label for the first broken character it holds: none or one
BrokenLabelIssues(tb, lab) ==
    LET hits == {k \in 1..Len(BROKEN_CHARS) : Contains(lab, <<BROKEN_CHARS[k]>>)}
    IN IF hits = {} THEN <<>>
       ELSE <<make_issue("WARN", "Tabela", tb.nome, "encoding_error",
                         [ch |-> BROKEN_CHARS[MinOf(hits)], label |-> lab])>>

W_Depto == <<"D", "e", "p", "t", "o">>
W_DepDot == <<"D", "e", "p", ".">>
W_Estut == <<"E", "s", "t", "u", "t">>

\* \bDepto\b|\bDep\.\b|\bEstut\b is found in the label
IsAbbr(lab) ==
    \E p \in 1..Len(lab) :
        /\ WordBoundary(lab, p)
        /\ \/ TextAt(lab, p, W_Depto) /\ WordBoundary(lab, p + 5)
           \/ TextAt(lab, p, W_DepDot) /\ WordBoundary(lab, p + 4)
           \/ TextAt(lab, p, W_Estut) /\ WordBoundary(lab, p + 5)

\* str.isupper()
IsUpperStr(t) ==
    /\ \E i \in 1..Len(t) : t[i] \in Range(Uppers)
    /\ \A i \in 1..Len(t) : t[i] \notin Range(Lowers) \cup Range(Accented)

\* the longest run of [A-Z], of [A-Z0-9], of an acronym's part
SiglaRun == 10
\* the least length of a label in capitals that counts as one
UpperLabelLen == 8

SiglaSeps == {"-", "/"}

\* the part of u from place a to the place before its next separator
PartEnd(u, a) == MinOf({e \in a..(Len(u) + 1) : e = Len(u) + 1 \/ u[e] \in SiglaSeps}) - 1

\* u is [A-Z]{2,10}(?:[-/][A-Z0-9]{1,10})*
SiglaShape(u) ==
    /\ Len(u) >= 2
    /\ u[Len(u)] \notin SiglaSeps
    /\ \A a \in 1..Len(u) :
           (a = 1 \/ u[a - 1] \in SiglaSeps) =>
               /\ PartEnd(u, a) >= a
               /\ PartEnd(u, a) - a + 1 <= SiglaRun
               /\ a = 1 => PartEnd(u, a) >= 2
               /\ \A i \in a..PartEnd(u, a) :
                      u[i] \in Range(Uppers) \/ (a > 1 /\ u[i] \in Digits)

\* SIGLA_RE.fullmatch(lab)
SIGLA_RE(lab) == SiglaShape(lab)

Dashes == {"-", ENDASH, EMDASH}

\* after the acronym lab[1..e] come \s*[-...]\s*(.+)$
NameFollows(lab, e) ==
    /\ SkipSpaces(lab, e + 1) <= Len(lab)
    /\ lab[SkipSpaces(lab, e + 1)] \in Dashes
    /\ SkipSpaces(lab, e + 1) < Len(lab)

\* SIGLA_NAME_RE.match(lab): the end of group 1, the longest the pattern
\* can take, or 0 when the label does not match
SiglaEnd(lab) ==
    LET es == {e \in 2..Len(lab) : SiglaShape(SubSeq(lab, 1, e)) /\ NameFollows(lab, e)}
    IN IF es = {} THEN 0 ELSE MaxOf(es)

\* group 2 of the match, for the end e of group 1
SiglaNameOf(lab, e) ==
    LET d == SkipSpaces(lab, e + 1)
        n == IF SkipSpaces(lab, d + 1) <= Len(lab) THEN SkipSpaces(lab, d + 1) ELSE Len(lab)
    IN SubSeq(lab, n, Len(lab))

\* the labels that match, in order, as <<sigla, key of the name>>
SiglaPairs(labels) ==
    LET hits == SelectSeq(labels, LAMBDA lab : SiglaEnd(lab) # 0)
    IN [k \in 1..Len(hits) |->
           <<SubSeq(hits[k], 1, SiglaEnd(hits[k])),
             normalize_key(normalize_text(SiglaNameOf(hits[k], SiglaEnd(hits[k]))))>>]

\* the places of q that hold the first occurrence of their value
Firsts(q) == SelectSeq([i \in 1..Len(q) |-> i], LAMBDA i : \A j \in 1..(i - 1) : q[j] # q[i])

\* list(dict.fromkeys(q))
Dedup(q) == [k \in 1..Len(Firsts(q)) |-> q[Firsts(q)[k]]]

\* one finding for each key, in the order the keys were first met, that is
\* paired with two values or more; side is 1 for acronyms, 2 for names
PairingIssues(tb, pairs, side, rule) ==
    LET keys == Dedup([k \in 1..Len(pairs) |-> pairs[k][side]])
        others(x) == {pairs[k][3 - side] : k \in {i \in 1..Len(pairs) : pairs[i][side] = x}}
        many == SelectSeq(keys, LAMBDA x : Cardinality(others(x)) >= 2)
    IN [k \in 1..Len(many) |->
           make_issue("WARN", "Tabela", tb.nome, rule,
                      IF side = 1 THEN many[k] ELSE others(many[k]))]

RECURSIVE ConcatAll(_)
ConcatAll(q) == IF q = <<>> THEN <<>> ELSE Head(q) \o ConcatAll(Tail(q))

\* max(2, int(0.3 * n))
UpperQuota(n) == MaxOf({2, (3 * n) \div 10})

SiglasIssues(tb, labels) ==
    LET abbr_hits == SelectSeq(labels, IsAbbr)
        upper_hits == Len(SelectSeq(labels, LAMBDA lab : /\ IsUpperStr(lab)
                                                         /\ Len(lab) >= UpperLabelLen
                                                         /\ ~SIGLA_RE(lab)))
    IN ConcatAll([k \in 1..Len(labels) |-> BrokenLabelIssues(tb, labels[k])])
       \o PairingIssues(tb, SiglaPairs(labels), 1, "sigla_multiple_names")
       \o PairingIssues(tb, SiglaPairs(labels), 2, "name_multiple_siglas")
       \o (IF abbr_hits # <<>>
           THEN <<make_issue("WARN", "Tabela", tb.nome, "irregular_abbreviations",
                             normalize_text(abbr_hits[1]))>>
           ELSE <<>>)
       \o (IF upper_hits >= UpperQuota(Len(labels))
           THEN <<make_issue("WARN", "Tabela", tb.nome, "inconsistent_uppercase", <<>>)>>
           ELSE <<>>)

\* the labels: the first cells that are not empty, normalised
Labels(rows) ==
    LET have == SelectSeq(rows, LAMBDA r : r # <<>> /\ normalize_text(r[1]) # <<>>)
    IN [k \in 1..Len(have) |-> normalize_text(have[k][1])]

rule_siglas_nomenclature(tb) ==
    IF tb.rows_raw = <<>> THEN <<>> ELSE SiglasIssues(tb, Labels(tb.rows_raw))

----------------------------------------------------------------------------
(* rule_spelling_typos *)

SUSPECT_WORDS == {<<"e", "s", "t", "u", "t">>, <<"a", "d", "m", "i", "n", "i", "s", "t">>,
                  <<"g", "o", "v", "e", "r">>,
                  <<"r", "e", "g", "u", "l", "a", "m", "e", "n", "t", "e">>,
                  <<"i", "n", "s", "t", "i", "t", "u", "i'", "d", "o">>,
                  <<"i", "n", "s", "t", "i", "t", "u", "i", "d", "o">>,
                  <<"a", "d", "m", "i", "n", "i", "s", "t", "r", "i", "s", "t">>,
                  <<"e", "s", "t", "u", "d">>, <<"a", "d", "m", "n", "i", "s">>,
                  <<"r", "e", "g", "u", "l", "a", "m", "e", "n", "t">>}

Vowels == {"a", "e", "i", "o", "u"}

\* the least length of a word looked at for its vowels
LongToken == 7
\* the examples the message of the rule names at most
TypoCap == 4

\* the last place of the run of word characters that starts at p
RunEnd(t, p) == MinOf({e \in p..Len(t) : e = Len(t) \/ ~IsWordChar(t[e + 1])})

\* re.findall(r"\b[\w...]{7,}\b", t): the words of t of seven characters or more
LongTokens(t) ==
    LET starts == SelectSeq([p \in 1..Len(t) |-> p],
                            LAMBDA p : /\ IsWordChar(t[p])
                                       /\ (p = 1 \/ ~IsWordChar(t[p - 1]))
                                       /\ RunEnd(t, p) - p + 1 >= LongToken)
    IN [k \in 1..Len(starts) |-> SubSeq(t, starts[k], RunEnd(t, starts[k]))]

\* the words among toks that are no number and hold no vowel
Vowelless(toks) ==
    SelectSeq(toks, LAMBDA tok : /\ ~IsDigits(normalize_key(tok))
                                 /\ \A i \in 1..Len(normalize_key(tok)) :
                                        normalize_key(tok)[i] \notin Vowels)

\* \w+\.\w+ is found in t
Glued(t) == \E k \in 2..(Len(t) - 1) : t[k] = "." /\ IsWordChar(t[k - 1]) /\ IsWordChar(t[k + 1])

\* what the normalised cell t adds to the sample
CellSamples(t) ==
    IF t = <<>> THEN <<>>
    ELSE (IF \E sw \in SUSPECT_WORDS : Contains(normalize_key(t), sw) THEN <<t>> ELSE <<>>)
         \o Vowelless(LongTokens(t))
         \o (IF Glued(t) THEN <<t>> ELSE <<>>)

TypoIssues(tb, sample) ==
    IF sample = <<>> THEN <<>>
    ELSE <<make_issue("WARN", "Tabela", tb.nome, "possible_typos",
                      SubSeq(Dedup(sample), 1, MinOf({TypoCap, Len(Dedup(sample))})))>>

\* the findings of the rule: none or one
rule_spelling_typos(tb) ==
    IF tb.rows_raw = <<>> THEN <<>>
    ELSE TypoIssues(tb, ConcatAll([k \in 1..Len(AllCells(tb.rows_raw)) |->
                                      CellSamples(normalize_text(AllCells(tb.rows_raw)[k]))]))

----------------------------------------------------------------------------
(* Inputs of the parser *)

Alphabet == {"0", "1", ".", ",", "%", "-", "(", ")", " ", NBSP, "R", "a"}

RECURSIVE StringsUpTo(_)
StringsUpTo(n) == IF n = 0 THEN {<<>>}
                  ELSE LET shorter == StringsUpTo(n - 1)
                       IN shorter \cup {Append(t, c) : t \in shorter, c \in Alphabet}

\* the digit runs of the numbers the yearbook's documentation names
DigitRuns == {<<>>, <<"1">>, <<"8">>, <<"5">>, <<"1", "0">>, <<"5", "0">>, <<"5", "6">>,
              <<"2", "3", "4">>, <<"4", "9", "0">>, <<"7", "6", "9">>, <<"2", "7", "7">>,
              <<"1", "2", "3", "4">>}

Separators == {<<".">>, <<",">>}

HeadRuns == {<<"1">>, <<"1", "0">>, <<"1", "2", "3", "4">>}

\* digits SEP digits, and head SEP digits SEP digits
Shaped == {a \o p \o b : a \in DigitRuns, b \in DigitRuns, p \in Separators}
          \cup {a \o p \o b \o q \o c : a \in HeadRuns, b \in DigitRuns, c \in DigitRuns,
                                          p \in Separators, q \in Separators}

Enveloped(t) == {t, <<"-">> \o t, <<"(">> \o t \o <<")">>, t \o <<"%">>}

\* k groups ".000"
Groups(k) == [i \in 1..(4 * k) |-> IF i % 4 = 1 THEN "." ELSE "0"]

\* 10^(3k) written thousand-grouped, as a PT-BR decimal and plain
LongInputs == UNION {{<<"1">> \o Groups(k), <<"1">> \o Groups(k) \o <<",", "5">>,
                      <<"1">> \o Zeros(3 * k)} : k \in {LongGroups - 1, LongGroups}}

Spaced == {<<"a", " ", " ", " ", "b">>, <<"1", " ", NBSP, " ", "0">>, <<" ", "1", TAB, TAB, TAB, "0", NBSP>>}

ParseInputs == StringsUpTo(MaxLen) \cup UNION {Enveloped(t) : t \in Shaped} \cup LongInputs \cup Spaced

----------------------------------------------------------------------------
(* The parser and the normaliser as a state machine: a string is           *)
(* normalised any number of times, then parsed.                            *)

InitParse ==
    /\ s \in ParseInputs
    /\ cur = s
    /\ prev = <<>>
    /\ passes = 0
    /\ res = Pending
    /\ table = NoTable
    /\ issues = <<>>
    /\ ran = "none"
    /\ base_year = 0
    /\ doc = NoDoc
    /\ status = "none"
    /\ pc = "text"

Normalize ==
    /\ pc = "text"
    /\ passes < MaxPasses
    /\ cur' = normalize_text(cur)
    /\ prev' = cur
    /\ passes' = passes + 1
    /\ UNCHANGED <<s, res, table, issues, ran, base_year, doc, status, pc>>

Parse ==
    /\ pc = "text"
    /\ res' = parse_number_ptbr(cur)
    /\ pc' = "parsed"
    /\ UNCHANGED <<s, cur, prev, passes, table, issues, ran, base_year, doc, status>>

NextParse == Normalize \/ Parse

SpecParse == InitParse /\ [][NextParse]_vars

----------------------------------------------------------------------------
(* The table rules as a state machine: a table record is built, then one   *)
(* rule is run on it.                                                      *)

RunSourceRequired ==
    /\ pc = "table"
    /\ issues' = rule_source_required(table)
    /\ ran' = "rule_source_required"
    /\ pc' = "ruled"
    /\ UNCHANGED <<s, cur, prev, passes, res, table, base_year, doc, status>>

RunTotals ==
    /\ pc = "table"
    /\ issues' = rule_totals(table)
    /\ ran' = "rule_totals"
    /\ pc' = "ruled"
    /\ UNCHANGED <<s, cur, prev, passes, res, table, base_year, doc, status>>

RunDuplicateRows ==
    /\ pc = "table"
    /\ issues' = rule_duplicate_rows_strict(table)
    /\ ran' = "rule_duplicate_rows_strict"
    /\ pc' = "ruled"
    /\ UNCHANGED <<s, cur, prev, passes, res, table, base_year, doc, status>>

RunExtremeVariation ==
    /\ pc = "table"
    /\ issues' = rule_extreme_variation(table)
    /\ ran' = "rule_extreme_variation"
    /\ pc' = "ruled"
    /\ UNCHANGED <<s, cur, prev, passes, res, table, base_year, doc, status>>

NextTable == RunSourceRequired \/ RunTotals \/ RunDuplicateRows \/ RunExtremeVariation

\* no rule has run, and the parser's variables are idle
InitRule ==
    /\ issues = <<>>
    /\ ran = "none"
    /\ pc = "table"
    /\ s = <<>>
    /\ cur = <<>>
    /\ prev = <<>>
    /\ passes = 0
    /\ res = Pending
    /\ base_year = 0
    /\ doc = NoDoc
    /\ status = "none"

----------------------------------------------------------------------------
(* Tables for the source rule: one small table under many contexts *)

T_Curso == <<"C", "u", "r", "s", "o">>
T_Qtd == <<"Q", "t", "d">>
T_Direito == <<"D", "i", "r", "e", "i", "t", "o">>
T_Tabela1 == <<"T", "a", "b", "e", "l", "a", " ", "1">>

CtxBefore == {<<>>, <<"x", " ">>, <<"A">>, <<"(">>}
CtxWord == {<<"F", "o", "n", "t", "e">>, <<"F", "O", "N", "T", "E">>, <<"f", "o", "n", "t", "e">>,
            <<"F", "o", "n", "t", "e", "s">>, <<"F", "o", "n", "t">>}
CtxGap == {<<>>, <<" ">>}
CtxSep == {<<>>, <<":">>, <<"-">>, <<ENDASH>>, <<";">>}
CtxTail == {<<>>, <<"I">>, <<"I", " ", "N", "o", "t", "a", ":", " ", "x">>, <<"O", "b", "s">>,
            <<"I", "n", "o", "t", "a">>}

SourceContexts == {b \o w \o g \o p \o h \o e : b \in CtxBefore, w \in CtxWord, g \in CtxGap,
                                               p \in CtxSep, h \in CtxGap, e \in CtxTail}

SourceTables == {Table(T_Tabela1, <<T_Curso, T_Qtd>>, <<<<T_Direito, <<"1", "0", "0">>>>>>, Strip(c)) :
                    c \in SourceContexts}

InitSource == table \in SourceTables /\ InitRule

SpecSource == InitSource /\ [][NextTable]_vars

----------------------------------------------------------------------------
(* Tables for the totals rule *)

\* most data rows of a table of the totals family
MaxDataRows == 3

T_Total == <<"T", "o", "t", "a", "l">>
T_TotalColon == <<"T", "O", "T", "A", "L", ":">>
T_Soma == <<"S", "o", "m", "a">>
T_SubTotal == <<"S", "u", "b", " ", "T", "o", "t", "a", "l">>
T_A == <<"A">>
T_B == <<"B">>
T_X == <<"X">>
N_10 == <<"1", "0">>
N_20 == <<"2", "0">>
N_30 == <<"3", "0">>
N_31 == <<"3", "1">>
N_60 == <<"6", "0">>
N_61 == <<"6", "1">>
N_60_5 == <<"6", "0", ",", "5">>

RowLabels == <<T_A, T_B, <<"C">>, <<"D">>, <<"E">>>>
DataCells == {N_10, N_20, N_30, T_X}
ClosingLabels == {T_Total, T_TotalColon, T_Soma}
ClosingCells == {N_60, N_61, N_60_5, T_X}

RECURSIVE SeqsOf(_, _)
SeqsOf(S, n) == IF n = 0 THEN {<<>>}
                ELSE {Append(q, x) : q \in SeqsOf(S, n - 1), x \in S}

\* n data rows, labelled A, B, C, ... with one cell each
DataRows(cells) == [i \in 1..Len(cells) |-> <<RowLabels[i], cells[i]>>]

InsertAt(q, i, x) == SubSeq(q, 1, i - 1) \o <<x>> \o SubSeq(q, i, Len(q))

\* a column of numbers and a closing row, which may be labelled as the total
IsTotalRowTable(tb) ==
    \E n \in 1..MaxDataRows : \E cells \in SeqsOf(DataCells, n) : \E at \in 1..(n + 1) :
        \E lab \in ClosingLabels, tot \in ClosingCells :
            tb = Table(T_Tabela1, <<T_Curso, T_Qtd>>, InsertAt(DataRows(cells), at, <<lab, tot>>), <<>>)

TotalColRows == {<<lab, a, N_20, tot>> : lab \in {T_X, T_Total}, a \in {N_10, T_X}, tot \in {N_30, N_31}}

\* two columns of numbers and a third, which may be headed as the total
IsTotalColTable(tb) ==
    \E h \in {T_Total, T_SubTotal, T_Soma} :
        \E rows \in SeqsOf(TotalColRows, 1) \cup SeqsOf(TotalColRows, 2) :
            tb = Table(T_Tabela1, <<T_Curso, T_A, T_B, h>>, rows, <<>>)

InitTotals == (IsTotalRowTable(table) \/ IsTotalColTable(table)) /\ InitRule

SpecTotals == InitTotals /\ [][NextTable]_vars

----------------------------------------------------------------------------
(* Tables for the variation rule *)

T_Campus == <<"C", "a", "m", "p", "u", "s">>
T_Name == <<"N", "a", "m", "e">>
Y_2022 == <<"2", "0", "2", "2">>
Y_2023 == <<"2", "0", "2", "3">>
Y_2024 == <<"2", "0", "2", "4">>
N_0 == <<"0">>
N_15 == <<"1", "5">>
N_1000 == <<"1", "0", "0", "0">>
T_Range == <<"2", "0", "2", "0", " ", "a", " ", "2", "0", "2", "4">>

SeriesHeaders == {<<T_Campus, Y_2022, Y_2023, Y_2024>>, <<T_Campus, Y_2023, Y_2022, Y_2024>>,
                  <<T_Name, T_A, T_B, <<"C">>>>}
SeriesContexts == {<<>>, T_Range}
SeriesCells == {N_0, N_10, N_15, N_1000, T_X}
FirstCells == {T_X, Y_2022, Y_2023}

\* a row of any cells alone, or a row of numbers over a second row
SeriesRowSets ==
    {<<<<f>> \o v>> : f \in FirstCells, v \in SeqsOf(SeriesCells, 3)}
    \cup {<<<<f>> \o v, <<g>> \o w>> : f \in {T_X, Y_2022}, v \in SeqsOf({N_10, N_15, N_1000}, 3),
                                       g \in {T_X, Y_2023}, w \in SeqsOf({N_10, N_1000}, 3)}

InitSeries ==
    /\ \E h \in SeriesHeaders, c \in SeriesContexts, rows \in SeriesRowSets :
           table = Table(T_Tabela1, h, rows, c)
    /\ InitRule

SpecSeries == InitSeries /\ [][NextTable]_vars

----------------------------------------------------------------------------
(* Tables for the duplicate-rows rule *)

\* most rows of a table of the duplicate-rows family
MaxDupRows == 3

T_Math == <<"M", "a", "t", "h">>
T_MathDot == <<"M", "A", "T", "H", ".">>
T_Physics == <<"P", "h", "y", "s", "i", "c", "s">>

DupRows == {<<T_Math, N_10, N_20>>, <<T_MathDot, N_10, N_20>>, <<T_Physics, N_10, N_20>>,
            <<T_Math, N_20, N_20>>, <<T_Math, N_10>>, <<<<>>, N_10, N_20>>, <<<<".">>, N_10, N_20>>}

InitDup ==
    /\ \E n \in 1..MaxDupRows : \E rows \in SeqsOf(DupRows, n) :
           table = Table(T_Tabela1, <<T_Curso, T_A, T_B>>, rows, <<>>)
    /\ InitRule

SpecDup == InitDup /\ [][NextTable]_vars

----------------------------------------------------------------------------
(* analyze_table: every rule in turn, on one table *)

\* what a call gives back: the findings it returns, or the exception that
\* leaves it
Returned(found) == [raised |-> FALSE, issues |-> found]
Raised == [raised |-> TRUE, issues |-> <<>>]

\* the findings of the rules, in the order the rules are run
AnalyzeIssues(tb, by) ==
    rule_table_empty(tb) \o rule_table_without_data(tb) \o rule_blank_cells(tb)
    \o rule_source_required(tb) \o rule_source_style_inconsistency(tb)
    \o rule_totals(tb) \o rule_year_base_mentions(tb, by)
    \o rule_numeric_format_inconsistency(tb) \o rule_duplicate_rows_strict(tb)
    \o rule_extreme_variation(tb) \o rule_siglas_nomenclature(tb) \o rule_spelling_typos(tb)

\* no rule is guarded: the exception of the first scan leaves analyze_table
AnalyzeRaises(tb) == ScanRaises(ParsedCells(tb.rows_raw))

analyze_table(tb, by) == IF AnalyzeRaises(tb) THEN Raised ELSE Returned(AnalyzeIssues(tb, by))

----------------------------------------------------------------------------
(* Extraction: the table records of the <table> elements of a page *)

\* a <table> element: its caption, the headers and rows read from it, the
\* text of its neighbours and its markup
TableElem(caption, headers, rows, before, after, html) ==
    [caption |-> caption, headers |-> headers, rows |-> rows,
     before |-> before, after |-> after, html |-> html]

W_TabelaSp == <<"T", "a", "b", "e", "l", "a", " ">>

DigitChar(d) == CHOOSE c \in Digits : DigitVal[c] = d

\* str(n), n >= 0
RECURSIVE DigitsOf(_)
DigitsOf(n) == IF n < 10 THEN <<DigitChar(n)>> ELSE DigitsOf(n \div 10) \o <<DigitChar(n % 10)>>

\* " ".join([a, b, c])
Join3(a, b, c) == a \o <<" ">> \o b \o <<" ">> \o c

\* the record of the idx-th element
TableOf(idx, el) ==
    [nome |-> IF normalize_text(el.caption) # <<>> THEN normalize_text(el.caption)
              ELSE W_TabelaSp \o DigitsOf(idx),
     headers |-> el.headers,
     rows_raw |-> el.rows,
     context_all |-> Strip(Join3(el.before, normalize_text(el.caption), el.after)),
     hash |-> el.html]

extract_tables_from_html(d) == [idx \in 1..Len(d.tables) |-> TableOf(idx, d.tables[idx])]

----------------------------------------------------------------------------
(* The document rules, the figure rules and run_audit *)

\* a <figure> element: its caption, the alt text of its image and the text
\* of its neighbours
FigElem(caption, alt, before, after) ==
    [caption |-> caption, alt |-> alt, before |-> before, after |-> after]

W_Documento == <<"D", "o", "c", "u", "m", "e", "n", "t", "o">>

W_FiguraSp == <<"F", "i", "g", "u", "r", "a", "/", "G", "r", "a'", "f", "i", "c", "o", " ">>

\* the record of the i-th figure
FigureOf(i, el) ==
    [nome |-> IF normalize_text(el.caption) # <<>> THEN normalize_text(el.caption)
              ELSE IF normalize_text(el.alt) # <<>> THEN normalize_text(el.alt)
              ELSE W_FiguraSp \o DigitsOf(i),
     context_all |-> Strip(el.before \o <<" ">> \o normalize_text(el.caption) \o <<" ">>
                           \o normalize_text(el.alt) \o <<" ">> \o el.after)]

extract_figures_from_html(d) == [i \in 1..Len(d.figures) |-> FigureOf(i, d.figures[i])]

\* one finding for each broken character the rendered text holds
rule_broken_chars_in_text(d) ==
    LET hits == SelectSeq(BROKEN_CHARS, LAMBDA ch : Contains(d.text, <<ch>>))
    IN [k \in 1..Len(hits) |-> make_issue("WARN", "Documento", W_Documento, "encoding_error", hits[k])]

\* one finding for each table whose markup repeats that of an earlier table
rule_structural_duplicate_tables(tables) ==
    LET again == SelectSeq([i \in 1..Len(tables) |-> i],
                           LAMBDA i : \E j \in 1..(i - 1) : tables[j].hash = tables[i].hash)
    IN [k \in 1..Len(again) |->
           make_issue("WARN", "Documento", W_Documento, "duplicate_table_structure",
                      [table |-> tables[again[k]].nome,
                       of |-> tables[MinOf({j \in 1..again[k] : tables[j].hash = tables[again[k]].hash})].nome])]

rule_figure_source_required(fig) ==
    IF find_source_text(fig.context_all) = <<>>
    THEN <<make_issue("FAIL", "Figura", fig.nome, "figure_source_required", <<>>)>>
    ELSE <<>>

FigureYearIssues(fig, by, years, rng) ==
    IF years = {} THEN <<>>
    ELSE IF rng # <<>>
         THEN IF ~Between(rng[1], rng[2], by)
              THEN <<make_issue("FAIL", "Figura", fig.nome, "figure_year_range_mismatch",
                                [a |-> rng[1], b |-> rng[2], base_year |-> by])>>
              ELSE <<>>
    ELSE IF years \ {by} # {}
         THEN <<make_issue("WARN", "Figura", fig.nome, "figure_year_outside_base",
                           [other_years |-> Sorted(years \ {by}), base_year |-> by])>>
    ELSE <<>>

rule_figure_year_base(fig, by) ==
    FigureYearIssues(fig, by, Range(detect_years_in_text(fig.context_all)),
                     detect_year_range(fig.context_all))

\* the summary finding: tables were found, or none was
SummaryIssue(n) ==
    IF n = 0 THEN make_issue("FAIL", "Documento", W_Documento, "no_tables", <<>>)
    ELSE make_issue("PASS", "Documento", W_Documento, "document_ok", [tables |-> n])

\* a run that reports the tables last to first
AuditIssues_tables_reversed(d, by, tables, figs) ==
    <<SummaryIssue(Len(tables))>>
    \o rule_broken_chars_in_text(d)
    \o rule_structural_duplicate_tables(tables)
    \o ConcatAll([i \in 1..Len(tables) |-> AnalyzeIssues(tables[Len(tables) + 1 - i], by)])
    \o ConcatAll([i \in 1..Len(figs) |->
                     rule_figure_source_required(figs[i]) \o rule_figure_year_base(figs[i], by)])

\* the findings of a run on a page that was downloaded, when no rule raises
AuditIssues(d, by, tables, figs) ==
    <<SummaryIssue(Len(tables))>>
    \o rule_broken_chars_in_text(d)
    \o rule_structural_duplicate_tables(tables)
    \o ConcatAll([i \in 1..Len(tables) |-> AnalyzeIssues(tables[i], by)])
    \o ConcatAll([i \in 1..Len(figs) |->
                     rule_figure_source_required(figs[i]) \o rule_figure_year_base(figs[i], by)])

run_audit(d, by) ==
    IF ~d.html
    THEN Returned(<<make_issue("FAIL", "Documento", W_Documento, "download_failed", <<>>)>>)
    ELSE IF \E i \in 1..Len(d.tables) : AnalyzeRaises(TableOf(i, d.tables[i]))
         THEN Raised
    ELSE Returned(AuditIssues(d, by, extract_tables_from_html(d), extract_figures_from_html(d)))

\* the endpoint: the findings of the run, or the error 400 for any exception
Answer(r) == IF r.raised THEN [status |-> "400", issues |-> <<>>]
             ELSE [status |-> "ok", issues |-> r.issues]

audit(d, by) == Answer(run_audit(d, by))

----------------------------------------------------------------------------
(* analyze_table as a state machine: a table record is extracted, then    *)
(* the year rule alone, or analyze_table, is run on it.                    *)

RunYearBase ==
    /\ pc = "table"
    /\ issues' = rule_year_base_mentions(table, base_year)
    /\ ran' = "rule_year_base_mentions"
    /\ pc' = "ruled"
    /\ UNCHANGED <<s, cur, prev, passes, res, table, base_year, doc, status>>

AnalyzeTable ==
    /\ pc = "table"
    /\ \E r \in {analyze_table(table, base_year)} :
           issues' = r.issues /\ status' = IF r.raised THEN "raised" ELSE "returned"
    /\ ran' = "analyze_table"
    /\ pc' = "analyzed"
    /\ UNCHANGED <<s, cur, prev, passes, res, table, base_year, doc>>

\* is_time_series_table alone: the reason it gives, "" for a table that is none
ClassifyTable ==
    /\ pc = "table"
    /\ status' = is_time_series_table(table).reason
    /\ ran' = "is_time_series_table"
    /\ pc' = "classified"
    /\ UNCHANGED <<s, cur, prev, passes, res, table, issues, base_year, doc>>

NextAnalyze == RunYearBase \/ AnalyzeTable \/ ClassifyTable

----------------------------------------------------------------------------
(* Tables for analyze_table *)

\* most data rows of a table of the zero family
MaxZeroRows == 2

N_0_0 == <<"0", ".", "0">>
N_0c0 == <<"0", ",", "0">>
N_0000 == <<"0", "0", "0", "0">>
N_0_000 == <<"0", ".", "0", "0", "0">>
N_100 == <<"1", "0", "0">>
T_Dash == <<"-">>

ZeroCells == {N_0, N_0_0, N_0c0, N_0000, N_0_000, T_Dash, N_10}
YearZeroCells == {N_0, N_0_0, N_1000, T_X}

\* "Tabela 1 - Matri'culas 2023", with an em dash
T_Matriculas2023 ==
    <<"T", "a", "b", "e", "l", "a", " ", "1", " ", EMDASH, " ",
      "M", "a", "t", "r", "i'", "c", "u", "l", "a", "s", " ", "2", "0", "2", "3">>
T_Serie2020a2022 == <<"S", "e'", "r", "i", "e", " ", "2", "0", "2", "0", " ", "a", " ", "2", "0", "2", "2">>
T_Glued2020a2022 == <<"S", "e'", "r", "i", "e", " ", "2", "0", "2", "0", "a", "2", "0", "2", "2">>
T_Dados2024 == <<"D", "a", "d", "o", "s", " ", "2", "0", "2", "4">>
T_2021_2025e2019 == <<"2", "0", "2", "1", "-", "2", "0", "2", "5", " ", "e", " ", "2", "0", "1", "9">>
T_2025ate2023 == <<"2", "0", "2", "5", " ", "a", "t", "e'", " ", "2", "0", "2", "3">>
T_FonteX == <<"F", "o", "n", "t", "e", ":", " ", "X">>
T_Ano2019 == <<"A", "n", "o", " ", "2", "0", "1", "9">>
T_2019_2021 == <<"2", "0", "1", "9", " ", ENDASH, " ", "2", "0", "2", "1">>

YearCaptions == {<<>>, T_Matriculas2023, T_Serie2020a2022, T_Glued2020a2022, T_Dados2024,
                 T_2021_2025e2019, T_2025ate2023}
YearAfters == {<<>>, T_FonteX, T_Ano2019, T_2019_2021}
BaseYears == {2023, 2024}

\* one column of values, most of them zeros written in several ways, under
\* an optional total row
IsZeroTable(tb) ==
    \E n \in 1..MaxZeroRows : \E cells \in SeqsOf(ZeroCells, n) :
        \E tot \in {<<>>, <<<<T_Total, N_0>>>>, <<<<T_Total, N_10>>>>} :
            tb = TableOf(1, TableElem(<<>>, <<T_Curso, T_Qtd>>, DataRows(cells) \o tot,
                                      <<>>, <<>>, "h1"))

\* one row under two year columns
IsYearZeroTable(tb) ==
    \E a \in YearZeroCells, b \in YearZeroCells :
        tb = TableOf(1, TableElem(<<>>, <<T_Campus, Y_2022, Y_2023>>, <<<<T_X, a, b>>>>,
                                  <<>>, T_FonteX, "h1"))

YearShapes == {<<<<T_Curso, Y_2023>>, <<T_Direito, N_100>>>>,
               <<<<T_Campus, Y_2022, Y_2023>>, <<T_X, N_10, N_15>>>>,
               <<<<T_Curso, T_Qtd>>, <<T_Direito, N_100>>>>}

\* a caption and a following text that may mention years, over one year
\* column, two year columns or none
IsYearTable(tb) ==
    \E cap \in YearCaptions, aft \in YearAfters, hr \in YearShapes :
        tb = TableOf(1, TableElem(cap, hr[1], <<hr[2]>>, <<>>, aft, "h1"))

T_FT_Faculdade == <<"F", "T", " ", "-", " ", "F", "a", "c", "u", "l", "d", "a", "d", "e">>
T_FT_Escola == <<"F", "T", "-", "E", "s", "c", "o", "l", "a">>
T_FD_Faculdade == <<"F", "D", " ", ENDASH, " ", "F", "a", "c", "u", "l", "d", "a", "d", "e">>
T_DeptoFT == <<"D", "e", "p", "t", "o", " ", "F", "T">>
T_ENGENHARIA == <<"E", "N", "G", "E", "N", "H", "A", "R", "I", "A">>
T_MATEMATICA == <<"M", "A", "T", "E", "M", "A", "T", "I", "C", "A">>
T_ABC_DEF == <<"A", "B", "C", "-", "D", "E", "F">>
T_ND == <<"N", "D">>
T_n_a == <<"n", "/", "a">>
T_FonteNdNote == T_FonteX \o <<" ", "N", "D", ":", " ", "d", "a", "d", "o", "s">>
T_FONTES_X == <<"F", "O", "N", "T", "E", "S", " ", "X">>

LabelCells == {T_FT_Faculdade, T_FT_Escola, T_FD_Faculdade, T_DeptoFT, T_ENGENHARIA, T_MATEMATICA,
               T_ABC_DEF}

\* two labelled rows with one value each, a number or a mark of absence
IsLabelTable(tb) ==
    \E a \in LabelCells, b \in LabelCells, v \in {N_10, T_ND, T_n_a}, aft \in {T_FonteNdNote, T_FONTES_X} :
        tb = TableOf(1, TableElem(<<>>, <<T_Curso, T_Qtd>>, <<<<a, v>>, <<b, N_10>>>>, <<>>, aft, "h1"))

W_nao_disponivel == <<"n", "a~", "o", " ", "d", "i", "s", "p", "o", "n", "i'", "v", "e", "l">>
T_NotaNaoDisponivel == <<"N", "o", "t", "a", ":", " ", "d", "a", "d", "o", " ">> \o W_nao_disponivel
T_NdNaoDisponivel == <<"N", "D", ":", " ">> \o W_nao_disponivel
NdAfters == {T_FonteX, T_FonteNdNote, T_NotaNaoDisponivel, T_NdNaoDisponivel}

\* one row whose value may be a mark of absence, before a text that may explain it
IsNdTable(tb) ==
    \E v \in {N_10, T_ND, T_n_a, W_nao_disponivel}, aft \in NdAfters :
        tb = TableOf(1, TableElem(<<>>, <<T_Curso, T_Qtd>>, <<<<T_A, v>>>>, <<>>, aft, "h1"))

N_1_5 == <<"1", ".", "5">>
N_1c5 == <<"1", ",", "5">>
N_1234 == <<"1", "2", "3", "4">>
N_1_234 == <<"1", ".", "2", "3", "4">>

\* one row of four values: a decimal with a point, one with a comma, a plain
\* integer of four digits and a grouped one, each of which may be 10 instead
IsFormatTable(tb) ==
    \E a \in {N_1_5, N_10}, b \in {N_1c5, N_10}, c \in {N_1234, N_10}, d \in {N_1_234, N_10} :
        tb = TableOf(1, TableElem(<<>>, <<T_Curso, T_A, T_B, <<"C">>, <<"D">>>>, <<<<T_X, a, b, c, d>>>>,
                                  <<>>, T_FonteX, "h1"))

\* a row of data over a closing row whose one cell may cite the source, with
\* or without a citation after the table
IsSourceInsideTable(tb) ==
    \E foot \in {T_FonteX, T_Total}, aft \in {<<>>, T_FonteX} :
        tb = TableOf(1, TableElem(<<>>, <<T_Curso, T_Qtd>>, <<<<T_A, N_10>>, <<foot>>>>,
                                  <<>>, aft, "h1"))

\* most rows of a table of the first-column family
MaxYearRows == 4

T_Ano == <<"A", "n", "o">>
FirstColCells == {Y_2022, Y_2023, T_X, <<>>}

\* a first column of years, labels and empty cells beside a column of numbers
IsFirstColTable(tb) ==
    \E n \in 1..MaxYearRows : \E firsts \in SeqsOf(FirstColCells, n) :
        tb = TableOf(1, TableElem(<<>>, <<T_Ano, T_Qtd>>, [i \in 1..n |-> <<firsts[i], N_10>>],
                                  <<>>, T_FonteX, "h1"))

InitAnalyze ==
    /\ \/ (IsZeroTable(table) \/ IsYearZeroTable(table) \/ IsLabelTable(table) \/ IsFirstColTable(table)
           \/ IsNdTable(table) \/ IsFormatTable(table) \/ IsSourceInsideTable(table))
          /\ base_year = 2024
       \/ IsYearTable(table) /\ base_year \in BaseYears
    /\ issues = <<>>
    /\ ran = "none"
    /\ status = "none"
    /\ pc = "table"
    /\ s = <<>>
    /\ cur = <<>>
    /\ prev = <<>>
    /\ passes = 0
    /\ res = Pending
    /\ doc = NoDoc

SpecAnalyze == InitAnalyze /\ [][NextAnalyze]_vars

----------------------------------------------------------------------------
(* The audit as a state machine: a page stands behind the URL, then the    *)
(* endpoint is called.                                                     *)

Audit ==
    /\ pc = "doc"
    /\ \E r \in {audit(doc, base_year)} : issues' = r.issues /\ status' = r.status
    /\ ran' = "run_audit"
    /\ pc' = "audited"
    /\ UNCHANGED <<s, cur, prev, passes, res, table, base_year, doc>>

NextAudit == Audit

----------------------------------------------------------------------------
(* Pages for the audit *)

\* most tables of a page
MaxTables == 2

\* 10^(3 * LongGroups), thousand-grouped: more than a float holds
N_Huge == <<"1">> \o Groups(LongGroups)

E_Matriculas ==
    TableElem(T_Matriculas2023, <<T_Curso, Y_2023>>, <<<<T_Direito, N_100>>>>, <<>>, <<>>, "h1")
E_Zero == TableElem(<<>>, <<T_Curso, T_Qtd>>, <<<<T_A, N_0_0>>>>, <<>>, T_FonteX, "h2")
N_31_5 == <<"3", "1", ".", "5">>
E_Total ==
    TableElem(<<>>, <<T_Curso, T_Qtd>>, <<<<T_A, N_10>>, <<T_B, N_20>>, <<T_Total, N_31_5>>>>,
              <<>>, T_FonteX, "h3")
E_Series ==
    TableElem(<<>>, <<T_Campus, Y_2022, Y_2023, Y_2024>>, <<<<T_X, N_10, N_15, N_1000>>>>,
              <<>>, T_FonteX, "h4")
E_Huge == TableElem(<<>>, <<T_Curso, T_Qtd>>, <<<<T_A, N_Huge>>>>, <<>>, T_FonteX, "h5")
E_Empty == TableElem(<<>>, <<T_Curso, T_Qtd>>, <<>>, <<>>, <<>>, "h6")

PageTables == {E_Matriculas, E_Zero, E_Total, E_Series, E_Huge, E_Empty}

F_NoSource == FigElem(<<"G">>, <<>>, <<>>, <<>>)
F_Stale == FigElem(<<>>, <<>>, <<>>, T_FonteX \o <<" ">> \o T_Ano2019)

\* the other text of a page and its figures
PageRests == {<<<<"x">>, <<>>>>, <<<<"a", " ", "b">>, <<F_NoSource>>>>, <<<<"x">>, <<F_Stale, F_NoSource>>>>}

\* " ".join(q)
JoinSp(q) ==
    IF q = <<>> THEN <<>>
    ELSE q[1] \o ConcatAll([k \in 1..(Len(q) - 1) |-> <<" ">> \o q[k + 1]])

TablePieces(el) ==
    <<el.before, el.caption>> \o el.headers \o ConcatAll(el.rows) \o <<el.after>>

FigurePieces(el) == <<el.before, el.caption, el.alt, el.after>>

\* the rendered text of a page: its pieces of text, stripped, one space apart
PageText(lead, tables, figures) ==
    LET pieces == <<lead>> \o ConcatAll([i \in 1..Len(tables) |-> TablePieces(tables[i])])
                  \o ConcatAll([i \in 1..Len(figures) |-> FigurePieces(figures[i])])
    IN JoinSp(SelectSeq([k \in 1..Len(pieces) |-> Strip(pieces[k])], LAMBDA t : t # <<>>))

PageOf(lead, tables, figures) == Doc(TRUE, PageText(lead, tables, figures), tables, figures)

InitAudit ==
    /\ \/ doc = NoDoc
       \/ \E n \in 0..MaxTables : \E ts \in SeqsOf(PageTables, n) :
              \E rest \in PageRests : doc = PageOf(rest[1], ts, rest[2])
    /\ base_year \in BaseYears
    /\ table = NoTable
    /\ issues = <<>>
    /\ ran = "none"
    /\ status = "none"
    /\ pc = "doc"
    /\ s = <<>>
    /\ cur = <<>>
    /\ prev = <<>>
    /\ passes = 0
    /\ res = Pending

SpecAudit == InitAudit /\ [][NextAudit]_vars

----------------------------------------------------------------------------
(* The extraction from the markup: collect_neighbor_text and               *)
(* extract_headers_and_rows. A node of the tree is its tag name and its    *)
(* rendered text; a string between two tags has the name "#text".          *)

Node(name, text) == [name |-> name, text |-> text]

\* the siblings at which the walk stops
StopTags == {"table", "figure", "h1", "h2", "h3"}

max_prev == 5
max_next == 10

\* find_previous_sibling / find_next_sibling see tags only
TagsOf(nodes) == SelectSeq(nodes, LAMBDA n : n.name # "#text")

ReverseSeq(q) == [i \in 1..Len(q) |-> q[Len(q) + 1 - i]]

\* the texts met on a walk over the tags nodes, nearest first, of at most
\* left steps
RECURSIVE WalkSiblings(_, _)
WalkSiblings(nodes, left) ==
    IF left = 0 \/ nodes = <<>> THEN <<>>
    ELSE IF Head(nodes).name \in StopTags THEN <<>>
    ELSE (IF normalize_text(Head(nodes).text) # <<>> THEN <<normalize_text(Head(nodes).text)>> ELSE <<>>)
         \o WalkSiblings(Tail(nodes), left - 1)

\* before and after of a node whose siblings are prev and next, both in the
\* order of the document
collect_neighbor_text(prev_nodes, next_nodes) ==
    [before |-> JoinSp(ReverseSeq(WalkSiblings(ReverseSeq(TagsOf(prev_nodes)), max_prev))),
     after |-> JoinSp(WalkSiblings(TagsOf(next_nodes), max_next))]

CollectNeighborText ==
    /\ pc = "node"
    /\ res' = collect_neighbor_text(doc.prev, doc.next)
    /\ ran' = "collect_neighbor_text"
    /\ pc' = "collected"
    /\ UNCHANGED <<s, cur, prev, passes, table, issues, base_year, doc, status>>

\* most siblings before and after the node
MaxBefore == 7
MaxAfter == 12

\* the k-th paragraph: its text is one letter that no other node holds
Para(k) == Node("p", <<" ", Lowers[k], NBSP>>)

OtherNodes == {Node("table", <<"T">>), Node("figure", <<"F">>), Node("h1", <<"H">>),
               Node("h2", <<"H">>), Node("h3", <<"H">>), Node("h4", <<"H">>),
               Node("div", <<" ">>), Node("#text", <<"X">>)}

\* n siblings, paragraphs from the k-th on, of which the one at place at (if
\* any) is other
SiblingsOf(n, k, at, other) == [i \in 1..n |-> IF i = at THEN other ELSE Para(k + i - 1)]

SiblingLists(most, k) ==
    {SiblingsOf(n, k, at, other) : n \in 0..most, at \in 0..most, other \in OtherNodes}

\* a node with siblings on one side, and one paragraph or none on the other
NodePlaces ==
    {[prev |-> p, next |-> q] : p \in SiblingLists(MaxBefore, 1), q \in {<<>>, <<Para(MaxBefore + 1)>>}}
    \cup {[prev |-> p, next |-> q] : p \in {<<>>, <<Para(1)>>}, q \in SiblingLists(MaxAfter, MaxBefore + 1)}

----------------------------------------------------------------------------
(* extract_headers_and_rows. A <table> element is its rows in the order of *)
(* the document, each a sequence of cells, with whether the first row      *)
(* stands in a <thead> and whether the others stand in a <tbody>.          *)

Cell(tag, text) == [tag |-> tag, text |-> text]

TextsOf(cells) == [k \in 1..Len(cells) |-> normalize_text(cells[k].text)]

\* a row as it is read, with its trailing empty cells
TrimTrailing_none(row) == row

\* while row and row[-1] == "": row.pop()
TrimTrailing(row) ==
    IF \A k \in 1..Len(row) : row[k] = <<>> THEN <<>>
    ELSE SubSeq(row, 1, MaxOf({k \in 1..Len(row) : row[k] # <<>>}))

IsHeaderRow(row, headers) ==
    /\ headers # <<>>
    /\ Len(row) = Len(headers)
    /\ \A k \in 1..Len(row) : normalize_key(row[k]) = normalize_key(headers[k])

\* the headers read from the markup, before any generic ones are made
HeadersOf(el) ==
    IF el.trs = <<>> THEN <<>>
    ELSE IF el.thead
         THEN SelectSeq(TextsOf(SelectSeq(el.trs[1], LAMBDA c : c.tag = "th")), LAMBDA x : x # <<>>)
         ELSE TextsOf(SelectSeq(el.trs[1], LAMBDA c : c.tag = "th"))

\* the rows the scan goes through: those of the <tbody>, or all of them
ScannedRows(el) == IF el.thead /\ el.tbody THEN Tail(el.trs) ELSE el.trs

RowsOf(el, headers) ==
    LET read == [k \in 1..Len(ScannedRows(el)) |-> TextsOf(ScannedRows(el)[k])]
        kept == SelectSeq(read, LAMBDA row : row # <<>> /\ ~IsHeaderRow(row, headers))
    IN SelectSeq([k \in 1..Len(kept) |-> TrimTrailing(kept[k])], LAMBDA row : row # <<>>)

W_col_ == <<"c", "o", "l", "_">>

HeadersAndRows(headers, rows) ==
    [headers |-> IF headers = <<>> /\ rows # <<>>
                 THEN [i \in 1..Len(rows[1]) |-> W_col_ \o DigitsOf(i)]
                 ELSE headers,
     rows |-> rows]

extract_headers_and_rows(el) == HeadersAndRows(HeadersOf(el), RowsOf(el, HeadersOf(el)))

ExtractHeadersAndRows ==
    /\ pc = "elem"
    /\ \E r \in {extract_headers_and_rows(doc)} : table' = Table(T_Tabela1, r.headers, r.rows, <<>>)
    /\ ran' = "extract_headers_and_rows"
    /\ pc' = "extracted"
    /\ UNCHANGED <<s, cur, prev, passes, res, issues, base_year, doc, status>>

RunBlankCells ==
    /\ pc = "extracted"
    /\ issues' = rule_blank_cells(table)
    /\ ran' = "rule_blank_cells"
    /\ pc' = "ruled"
    /\ UNCHANGED <<s, cur, prev, passes, res, table, base_year, doc, status>>

NextDom == CollectNeighborText \/ ExtractHeadersAndRows \/ RunBlankCells

\* most rows under the header row of an element
MaxCellRows == 3

TableEl(thead, tbody, trs) == [thead |-> thead, tbody |-> tbody, trs |-> trs]

CellTexts == {N_10, <<" ">>, <<"-">>}

\* a row without cells, a row of two empty cells, or a label and up to two
\* values, any of which may be empty or a dash
MarkupRows ==
    {<<>>, <<Cell("td", <<" ">>), Cell("td", <<>>)>>}
    \cup {<<Cell("td", T_A)>> \o [k \in 1..Len(v) |-> Cell("td", v[k])] :
             v \in SeqsOf(CellTexts, 0) \cup SeqsOf(CellTexts, 1) \cup SeqsOf(CellTexts, 2)}

\* the rows that may follow the first
LaterRows == {<<Cell("td", T_B), Cell("td", N_10), Cell("td", N_10)>>,
              <<Cell("td", T_B), Cell("td", <<" ">>)>>,
              <<Cell("td", <<>>)>>}

RowLists ==
    {<<>>} \cup UNION {{<<r>> \o rest : r \in MarkupRows, rest \in SeqsOf(LaterRows, n - 1)} :
                         n \in 1..MaxCellRows}

HeadRows == {<<Cell("th", T_Curso), Cell("th", T_Qtd)>>, <<Cell("th", T_Curso), Cell("th", <<>>)>>}

\* the rows alone, or under a header row that may stand in a <thead>, the
\* rows then in a <tbody> or not
TableEls ==
    UNION {{TableEl(FALSE, FALSE, rows)}
           \cup {TableEl(sect[1], sect[2], <<h>> \o rows) :
                    h \in HeadRows, sect \in {<<TRUE, TRUE>>, <<TRUE, FALSE>>, <<FALSE, FALSE>>}} :
             rows \in RowLists}

InitDom ==
    /\ \/ doc \in NodePlaces /\ pc = "node"
       \/ doc \in TableEls /\ pc = "elem"
    /\ table = NoTable
    /\ issues = <<>>
    /\ ran = "none"
    /\ status = "none"
    /\ base_year = 0
    /\ s = <<>>
    /\ cur = <<>>
    /\ prev = <<>>
    /\ passes = 0
    /\ res = Pending

SpecDom == InitDom /\ [][NextDom]_vars

----------------------------------------------------------------------------
(* The check engine (check_engine.py): CheckEngine.run_all_checks on a     *)
(* section of text, and its first rule, r1_year_checks. A result is its    *)
(* rule, its severity and what was found (the matched year, or the number  *)
(* of matches); the snippet, the url and the anchor are copied through.    *)

EngineResult(rule, severity, found) == [rule |-> rule, severity |-> severity, found |-> found]

\* \d{n} matched from p
DigitsAt(t, p, n) == p >= 1 /\ p + n - 1 <= Len(t) /\ \A k \in p..(p + n - 1) : t[k] \in Digits

\* \s+ matched from p: the place after the white space, or 0
SpacesEnd(t, p) == IF p <= Len(t) /\ IsSpace(t[p]) THEN SkipSpaces(t, p) ELSE 0

W_anuario == <<"a", "n", "u", "a'", "r", "i", "o">>
W_estatistico == <<"e", "s", "t", "a", "t", "i'", "s", "t", "i", "c", "o">>

\* the place after "Estatistico\s+" when Anuario\s+Estatistico\s+ is matched
\* from p in any letter case, or 0
EstatisticoEnd(t, q) ==
    IF q # 0 /\ WordAt(t, q, W_estatistico) THEN SpacesEnd(t, q + Len(W_estatistico)) ELSE 0

\* (\d{4}) matched at r: r, or 0
FourDigitsAt(t, r) == IF r # 0 /\ DigitsAt(t, r, 4) THEN r ELSE 0

\* Anuario\s+Estatistico\s+(\d{4}) matched from p: the place of the year, or 0
AnuarioYearAt(t, p) ==
    IF ~WordAt(t, p, W_anuario) THEN 0
    ELSE FourDigitsAt(t, EstatisticoEnd(t, SpacesEnd(t, p + Len(W_anuario))))

\* one FAIL for each "Anuario Estatistico YYYY" of another year than the report's
WrongAnuarioYears(t, report_year) ==
    LET at == SelectSeq([p \in 1..Len(t) |-> AnuarioYearAt(t, p)],
                        LAMBDA r : r # 0 /\ NatOf(SubSeq(t, r, r + 3)) # report_year)
    IN [k \in 1..Len(at) |->
           EngineResult("R1_wrong_anuario_year", "FAIL", SubSeq(t, at[k], at[k] + 3))]

\* the end of the run of digits that holds p
DigitRunEnd(t, p) == MinOf({q \in p..Len(t) : q = Len(t) \/ t[q + 1] \notin Digits})

\* 20\d{3,} can be matched from p
InvalidYearAt(t, p) == TextAt(t, p, <<"2", "0">>) /\ DigitsAt(t, p + 2, 3)

\* the matches of 20\d{3,} from left to right: a match takes the run of digits
\* to its end, so a run gives the first place that matches and no other
InvalidYears(t) ==
    LET at == SelectSeq([p \in 1..Len(t) |-> p],
                        LAMBDA p : /\ InvalidYearAt(t, p)
                                   /\ ~\E o \in 1..(p - 1) : InvalidYearAt(t, o) /\ DigitsAt(t, o, p - o))
    IN [k \in 1..Len(at) |->
           EngineResult("R1_invalid_year_format", "FAIL", SubSeq(t, at[k], DigitRunEnd(t, at[k])))]

\* if self.base_year == 2024: "2023" in text and "2024" not in text
MissingBaseYear(t, by) ==
    IF by = 2024 /\ Contains(t, <<"2", "0", "2", "3">>) /\ ~Contains(t, <<"2", "0", "2", "4">>)
    THEN <<EngineResult("R1_missing_base_year", "WARN", <<"2", "0", "2", "3">>)>>
    ELSE <<>>

\* the place of the end year when \s+a\s+(\d{4}) is matched from q, or 0
SeriesTail(t, q) ==
    IF q # 0 /\ TextAt(t, q, <<"a">>) /\ SpacesEnd(t, q + 1) # 0 /\ DigitsAt(t, SpacesEnd(t, q + 1), 4)
    THEN SpacesEnd(t, q + 1) ELSE 0

\* (\d{4})\s+a\s+(\d{4}) matched from p: the place of the end year, or 0
SeriesAt(t, p) == IF DigitsAt(t, p, 4) THEN SeriesTail(t, SpacesEnd(t, p + 4)) ELSE 0

\* re.finditer(pattern_series, text): the end years of the matches that do
\* not overlap, from left to right, starting at place p
RECURSIVE SeriesEndYears(_, _)
SeriesEndYears(t, p) ==
    IF p > Len(t) THEN <<>>
    ELSE IF SeriesAt(t, p) = 0 THEN SeriesEndYears(t, p + 1)
    ELSE <<NatOf(SubSeq(t, SeriesAt(t, p), SeriesAt(t, p) + 3))>>
             \o SeriesEndYears(t, SeriesAt(t, p) + 4)

\* end_year == self.base_year - 1 and self.base_year not in text: base_year
\* is an int and text a str, so the membership test raises TypeError as soon
\* as the left operand of "and" holds
TruncatedSeriesRaises(t, by) ==
    \E k \in 1..Len(SeriesEndYears(t, 1)) : SeriesEndYears(t, 1)[k] = by - 1

r1_year_checks(t, report_year, by) ==
    IF TruncatedSeriesRaises(t, by) THEN Raised
    ELSE Returned(WrongAnuarioYears(t, report_year) \o InvalidYears(t) \o MissingBaseYear(t, by))

\* \.(\d{1,2})\b matched after the digit at d: the place after the match, or 0
FractionEnd(t, d) ==
    IF ~(d + 1 < Len(t) /\ t[d + 1] = "." /\ t[d + 2] \in Digits) THEN 0
    ELSE IF d + 3 <= Len(t) /\ t[d + 3] \in Digits /\ (d + 3 = Len(t) \/ ~IsWordChar(t[d + 4]))
         THEN d + 4
    ELSE IF d + 2 = Len(t) \/ ~IsWordChar(t[d + 3]) THEN d + 3
    ELSE 0

\* \b(\d+)\.(\d{1,2})\b matched from p: the place after the match, or 0
DecimalEnd(t, p) ==
    IF p <= Len(t) /\ t[p] \in Digits /\ (p = 1 \/ ~IsWordChar(t[p - 1]))
    THEN FractionEnd(t, DigitRunEnd(t, p))
    ELSE 0

\* len(list(re.finditer(pattern, text))), counted from place p
RECURSIVE DecimalMatches(_, _)
DecimalMatches(t, p) ==
    IF p > Len(t) THEN 0
    ELSE IF DecimalEnd(t, p) = 0 THEN DecimalMatches(t, p + 1)
    ELSE 1 + DecimalMatches(t, DecimalEnd(t, p))

r2_decimal_separator(t) ==
    IF DecimalMatches(t, 1) = 0 THEN <<>>
    ELSE <<EngineResult("R2_decimal_separator", "WARN", DecimalMatches(t, 1))>>

\* run_all_checks on a section without tables: the results of R1, then those
\* of R2. res keeps what the call of r1_year_checks gave; an exception of R1
\* leaves run_all_checks before R2 is evaluated, with no results.
RunAllChecks ==
    /\ pc = "section"
    /\ res' = r1_year_checks(doc.text, doc.report_year, base_year)
    /\ issues' = IF res'.raised THEN <<>> ELSE res'.issues \o r2_decimal_separator(doc.text)
    /\ status' = IF res'.raised THEN "TypeError" ELSE "returned"
    /\ ran' = "run_all_checks"
    /\ pc' = "checked"
    /\ UNCHANGED <<s, cur, prev, passes, table, base_year, doc>>

NextEngine == RunAllChecks

\* the sections: up to MaxPieces pieces of text, one space apart
MaxPieces == 2

T_2020a2023 == <<"2", "0", "2", "0", " ", "a", " ", "2", "0", "2", "3">>
T_2020a2024 == <<"2", "0", "2", "0", " ", "a", TAB, "2", "0", "2", "4">>
T_20234 == <<"2", "0", "2", "3", "4">>
T_Anuario2024 == <<"A", "n", "u", "a'", "r", "i", "o", " ", "E", "s", "t", "a", "t", "i'", "s", "t", "i", "c", "o", " ">> \o Y_2024

Pieces == {T_2020a2023, T_2020a2024, Y_2023, Y_2024, T_20234, T_Anuario2024, N_1_5, T_X}

SectionTexts == {JoinSp(q) : q \in UNION {SeqsOf(Pieces, n) : n \in 0..MaxPieces}}

ReportYears == {2025}

EngineBaseYears == {2024, 2025}

InitEngine ==
    /\ doc \in {[text |-> t, report_year |-> y] : t \in SectionTexts, y \in ReportYears}
    /\ base_year \in EngineBaseYears
    /\ pc = "section"
    /\ table = NoTable
    /\ issues = <<>>
    /\ ran = "none"
    /\ status = "none"
    /\ s = <<>>
    /\ cur = <<>>
    /\ prev = <<>>
    /\ passes = 0
    /\ res = Pending

SpecEngine == InitEngine /\ [][NextEngine]_vars

----------------------------------------------------------------------------
(* Claims about the parser and the normaliser (SpecParse) *)

Str_10_490_50 == <<"1", "0", ".", "4", "9", "0", ",", "5", "0">>
Str_8_5 == <<"8", ".", "5">>
Str_1234_56 == <<"1", "2", "3", "4", ",", "5", "6">>

\* the value of a string digits SEP digits, read with SEP as the decimal mark
\* and the dots before it as thousand marks
DecimalValue(t, sep) ==
    LET c == IndexOf(t, sep)
    IN Num(FALSE, DropAll(SubSeq(t, 1, c - 1), {"."}), SubSeq(t, c + 1, Len(t)))

\* C1: the thousand-grouped pattern is tried before the decimal-dot pattern:
\* every string matching ^\d{1,3}(\.\d{3})+$ parses to the integer written by
\* its digits, "10.490,50" parses to 10490.5, and a digits.digits string that
\* is not thousand-grouped parses to its decimal-dot value.
C1_ThousandBeforeDecimalDot ==
    (pc = "parsed" /\ passes = 0) =>
        /\ THOUSAND_DOT_RE(s) => res = Num(FALSE, DropAll(s, {"."}), <<>>)
        /\ s = Str_10_490_50 => res = Num(FALSE, <<"1", "0", "4", "9", "0">>, <<"5">>)
        /\ (DecimalDotRe(s) /\ ~THOUSAND_DOT_RE(s)) => res = DecimalValue(s, ".")

\* C1, on the strings whose integer a float can hold
C1_InFloatRange ==
    (pc = "parsed" /\ passes = 0 /\ ~TooBig(DropAll(s, {"."}))) => C1_ThousandBeforeDecimalDot

\* C2: the parser is total: parsing any string ends in a number or None,
\* never in an exception.
C2_ParserTotal == pc = "parsed" => res.kind \in {"num", "inf", "None"}

\* ^\d+,\d+$
DigitsCommaDigits(t) ==
    LET c == IndexOf(t, ",")
    IN c >= 2 /\ IsDigits(SubSeq(t, 1, c - 1)) /\ IsDigits(SubSeq(t, c + 1, Len(t)))

\* t with its dots stripped and its comma replaced by a point, parsed as float
CommaValue(t) ==
    LET c == IndexOf(t, ",")
    IN FloatOfStr(FALSE, DropAll(SubSeq(t, 1, c - 1), {"."}), SubSeq(t, c + 1, Len(t)))

\* C3: every string matching ^\d{1,3}(\.\d{3})*,\d+$ or ^\d+,\d+$ parses to
\* the value read with the dots stripped and the comma as decimal point, and
\* never to None.
C3_BothDecimalCommaShapes ==
    (pc = "parsed" /\ passes = 0 /\ (PTBR_DECIMAL_RE(s) \/ DigitsCommaDigits(s))) =>
        res # None /\ res = CommaValue(s)

MatchesAPattern(t) ==
    THOUSAND_DOT_RE(t) \/ PTBR_DECIMAL_RE(t) \/ DecimalDotRe(t) \/ PlainIntRe(t)

\* the removal C4 describes: one trailing '%', then one sign, a leading '-'
\* or enclosing parentheses
OneSignRemoved(str) ==
    LET t0 == normalize_text(str)
        t1 == IF t0 # <<>> /\ t0[Len(t0)] = "%" THEN Strip(SubSeq(t0, 1, Len(t0) - 1)) ELSE t0
    IN IF t1 # <<>> /\ Head(t1) = "-" THEN Strip(Tail(t1))
       ELSE IF Len(t1) >= 2 /\ Head(t1) = "(" /\ t1[Len(t1)] = ")"
            THEN Strip(SubSeq(t1, 2, Len(t1) - 1))
       ELSE t1

\* C4 as stated: a string that matches none of the four patterns once one
\* trailing '%' and one sign are removed parses to None.
C4_OnlyTrailingPercentAndSignRemoved ==
    (pc = "parsed" /\ ~MatchesAPattern(OneSignRemoved(cur))) => res = None

\* the removal the parser makes: every '%' and every currency character,
\* then enclosing parentheses, then a leading '-'
AllMarksRemoved(str) ==
    LET t2 == Strip(DropAll(normalize_text(str), {"%"} \cup CurrencyChars))
        t3 == IF Len(t2) >= 2 /\ Head(t2) = "(" /\ t2[Len(t2)] = ")"
              THEN Strip(SubSeq(t2, 2, Len(t2) - 1)) ELSE t2
    IN IF t3 # <<>> /\ Head(t3) = "-" THEN Strip(Tail(t3)) ELSE t3

NumericChars == Digits \cup {".", ",", "%", "-", "(", ")", " ", TAB, NBSP} \cup CurrencyChars

\* C4 amended: the parser removes every '%' and every currency character
\* (R, $, euro, pound) wherever it stands, then enclosing parentheses, then a
\* leading '-'. A string parses to None when what is left matches none of the
\* four patterns, so whenever it holds a character that is not a digit, a
\* mark the parser removes, '.', ',' or white space; a string whose remainder
\* matches a pattern does not parse to None, unless it is an empty marker or
\* a plain integer too large for a float.
C4_NoneUnlessRemainderMatches ==
    pc = "parsed" =>
        /\ ~MatchesAPattern(AllMarksRemoved(cur)) => res = None
        /\ (\E i \in 1..Len(cur) : cur[i] \notin NumericChars) => res = None
        /\ ( /\ MatchesAPattern(AllMarksRemoved(cur))
             /\ normalize_text(cur) \notin EMPTY_MARKERS
             /\ ~(PlainIntRe(AllMarksRemoved(cur)) /\ TooBig(AllMarksRemoved(cur))) ) => res # None

\* C4's case: a string with a letter, and one with an inner '%', were parsed
C4_Witness == pc = "parsed" /\ s = <<"1", "%", "a">> /\ res = None

\* C5: normalising twice gives what normalising once gives, and the parser
\* reads the same from both.
C5_NormalizeIdempotent ==
    /\ passes >= 2 => cur = prev
    /\ (passes >= 2 /\ pc = "parsed") => res = parse_number_ptbr(prev)

\* C5's case: a string that normalisation changes was normalised twice and parsed
C5_Witness == passes = 2 /\ pc = "parsed" /\ s # prev /\ res.kind = "num"

----------------------------------------------------------------------------
(* Claims about the source rule (SpecSource) *)

ContainsWord(t, w) == \E p \in 1..Len(t) : WordAt(t, p, w)

\* the text holds "Fonte:" (in any letter case) as a word of its own, with
\* something after the colon
HoldsFonteColon(t) ==
    \E p \in 1..Len(t) : /\ WordAt(t, p, W_fonte \o <<":">>)
                         /\ (p = 1 \/ ~IsWordChar(t[p - 1]))
                         /\ p + 6 <= Len(t)

SourceRan == pc = "ruled" /\ ran = "rule_source_required"

----------------------------------------------------------------------------
(* Claims about the totals rule (SpecTotals) *)

TotalsRan == pc = "ruled" /\ ran = "rule_totals"

\* the sum of the numbers of column c in rows 1..n, in units, and how many
RECURSIVE SumAbove(_, _, _)
SumAbove(rows, n, c) ==
    IF n = 0 THEN [sum |-> 0, used |-> 0]
    ELSE LET rest == SumAbove(rows, n - 1, c)
             v == IF c <= Len(rows[n]) THEN parse_number_ptbr(rows[n][c]) ELSE None
         IN IF v = None THEN rest
            ELSE [sum |-> rest.sum + Units(v), used |-> rest.used + 1]

ColumnFindings(c) ==
    {i \in 1..Len(issues) : issues[i].rule = "total_row_mismatch"
                            /\ issues[i].detail.subject = table.headers[c]}

Rows_10_20_30 == <<<<T_A, N_10>>, <<T_B, N_20>>, <<<<"C">>, N_30>>>>

\* C7: with an explicit total row and no total column, every finding is a
\* FAIL for one column whose sum of the rows above differs from its declared
\* total, and shows both; a column whose sum equals its total gets none; rows
\* 10, 20, 30 with total 60 give no finding, with total 61 exactly one FAIL
\* showing 60 and 61.
C7_TotalRowCheck ==
    (TotalsRan /\ find_total_row_index(table.rows_raw) # 0 /\ find_total_col_index(table.headers) = 0) =>
        LET rows == table.rows_raw
            k == find_total_row_index(rows)
            declared(c) == IF c <= Len(rows[k]) THEN parse_number_ptbr(rows[k][c]) ELSE None
            above(c) == SumAbove(rows, k - 1, c)
        IN /\ \A i \in 1..Len(issues) :
                  /\ issues[i].severity = "FAIL"
                  /\ issues[i].rule = "total_row_mismatch"
                  /\ \E c \in 2..Len(table.headers) :
                         /\ declared(c) # None
                         /\ above(c).sum # Units(declared(c))
                         /\ issues[i].detail = [subject |-> table.headers[c],
                                                calc |-> Fmt0(above(c).sum),
                                                reported |-> Fmt0(Units(declared(c)))]
           /\ \A c \in 2..Len(table.headers) :
                  /\ Cardinality(ColumnFindings(c)) <= 1
                  /\ (declared(c) # None /\ above(c).sum = Units(declared(c))) => ColumnFindings(c) = {}
           /\ rows = Rows_10_20_30 \o <<<<T_Total, N_60>>>> => issues = <<>>
           /\ rows = Rows_10_20_30 \o <<<<T_Total, N_61>>>> =>
                  issues = <<make_issue("FAIL", "Tabela", table.nome, "total_row_mismatch",
                                        [subject |-> T_Qtd, calc |-> 60, reported |-> 61])>>

\* C7's case: rows 10, 20, 30 under a total of 61 were checked and reported
C7_Witness ==
    /\ TotalsRan
    /\ table.rows_raw = Rows_10_20_30 \o <<<<T_Total, N_61>>>>
    /\ Len(issues) = 1

NoTotalMarker(tb) ==
    /\ \A i \in 1..Len(tb.rows_raw) : normalize_key(tb.rows_raw[i][1]) \notin TOTAL_WORDS
    /\ \A i \in 1..Len(tb.headers) :
           /\ normalize_key(tb.headers[i]) \notin TOTAL_WORDS
           /\ ~EndsWith(normalize_key(tb.headers[i]), <<" ", "t", "o", "t", "a", "l">>)

\* C8: a table in which no row label and no header is a total marker gets no
\* finding from the totals rule, whatever its numbers.
C8_TotalsNeverInvented == (TotalsRan /\ NoTotalMarker(table)) => issues = <<>>

\* C8's case: the rule ran on a table without a marker whose last row is not
\* the sum of the rows above
C8_Witness ==
    /\ TotalsRan
    /\ NoTotalMarker(table)
    /\ table.rows_raw = Rows_10_20_30 \o <<<<T_Soma, N_61>>>>
    /\ issues = <<>>

----------------------------------------------------------------------------
(* Claims about the variation rule (SpecSeries) *)

SeriesRan == pc = "ruled" /\ ran = "rule_extreme_variation"

NoYears(tb) ==
    /\ \A i \in 1..Len(tb.headers) : ~YearRe(normalize_text(tb.headers[i]))
    /\ \A i \in 1..Len(tb.rows_raw) : ~YearRe(normalize_text(tb.rows_raw[i][1]))

CampusSeries ==
    /\ table.headers = <<T_Campus, Y_2022, Y_2023, Y_2024>>
    /\ table.rows_raw = <<<<T_X, N_10, N_15, N_1000>>>>

\* C9: the table with headers Campus, 2022, 2023, 2024 and the row X, 10, 15,
\* 1000 is a time series and gets a FAIL for the step from 2023 to 2024; a
\* table with no year among its headers and no year as the first cell of a
\* row gets no variation finding, whatever its values.
C9_TimeSeriesGate ==
    SeriesRan =>
        /\ CampusSeries =>
               /\ is_time_series_table(table).ts
               /\ \E i \in 1..Len(issues) :
                      /\ issues[i].severity = "FAIL"
                      /\ issues[i].rule = "extreme_year_variation"
                      /\ issues[i].detail = [subject |-> T_X, y0 |-> 2023, v0 |-> 15,
                                             y1 |-> 2024, v1 |-> 1000]
        /\ NoYears(table) => issues = <<>>

\* C9's case: the variation rule ran on the Campus table and reported it
C9_Witness == SeriesRan /\ CampusSeries /\ Len(issues) = 2

----------------------------------------------------------------------------
(* Claims about the duplicate-rows rule (SpecDup) *)

DupRan == pc = "ruled" /\ ran = "rule_duplicate_rows_strict"

LabelKey(r) == normalize_key(normalize_text(r[1]))

\* C10: the rule reports at most one finding, a WARN that names two rows whose
\* normalized labels are equal and whose remaining cells are all equal; rows
\* Math, 10, 20 twice give one WARN; rows with equal values under different
\* labels alone give none.
C10_StrictDuplicateRows ==
    DupRan =>
        LET rows == table.rows_raw
        IN /\ Len(issues) <= 1
           /\ \A k \in 1..Len(issues) :
                  /\ issues[k].severity = "WARN"
                  /\ issues[k].rule = "duplicated_row"
                  /\ LET a == issues[k].detail.first
                         b == issues[k].detail.second
                     IN /\ 1 <= a /\ a < b /\ b <= Len(rows)
                        /\ LabelKey(rows[a]) = LabelKey(rows[b])
                        /\ Tail(rows[a]) = Tail(rows[b])
           /\ rows = <<<<T_Math, N_10, N_20>>, <<T_Math, N_10, N_20>>>> => Len(issues) = 1
           /\ rows = <<<<T_Math, N_10, N_20>>, <<T_Physics, N_10, N_20>>>> => issues = <<>>
           /\ (\A a, b \in 1..Len(rows) :
                   (a < b /\ Tail(rows[a]) = Tail(rows[b])) => LabelKey(rows[a]) # LabelKey(rows[b]))
                  => issues = <<>>

\* C10's case: the rule ran on a table that repeats a row and reported it once
C10_Witness ==
    /\ DupRan
    /\ table.rows_raw = <<<<T_Math, N_10, N_20>>, <<T_Physics, N_10, N_20>>, <<T_MathDot, N_10, N_20>>>>
    /\ Len(issues) = 1

----------------------------------------------------------------------------
(* Claims about analyze_table (SpecAnalyze) *)

AnalyzeRan == pc = "analyzed" /\ ran = "analyze_table" /\ status = "returned"

\* the table holds a number, and every number it holds is 0
AllZero(tb) ==
    /\ \E k \in 1..Len(ParsedCells(tb.rows_raw)) : ParsedCells(tb.rows_raw)[k] # None
    /\ \A k \in 1..Len(ParsedCells(tb.rows_raw)) :
           ParsedCells(tb.rows_raw)[k] \in {None, Num(FALSE, <<"0">>, <<>>)}

\* the findings of q whose rule is one of ids
OfRules(q, ids) == SelectSeq(q, LAMBDA i : i.rule \in ids)

TotalsIds == {"total_row_mismatch", "total_col_mismatch"}
FormatIds == {"thousand_separator_inconsistency", "decimal_dot"}
VariationIds == {"jump_from_zero", "extreme_year_variation", "abrupt_change"}
SourceIds == {"table_source_required"}
YearIds == {"year_range_mismatch", "year_outside_base"}

\* C11: a table whose numbers are all 0 gets the FAIL table_all_zero and the
\* findings of the source rule and of the year rule, and gets no finding of
\* the totals, of the number format or of the variation, however its zeros
\* are written.
C11_AllZeroGating ==
    (AnalyzeRan /\ AllZero(table)) =>
        /\ \E k \in 1..Len(issues) : issues[k].severity = "FAIL" /\ issues[k].rule = "table_all_zero"
        /\ OfRules(issues, SourceIds) = rule_source_required(table)
        /\ OfRules(issues, YearIds) = rule_year_base_mentions(table, base_year)
        /\ OfRules(issues, TotalsIds \cup FormatIds \cup VariationIds) = <<>>

----------------------------------------------------------------------------
(* Claims about the audit (SpecAudit) *)

AuditRan == pc = "audited" /\ ran = "run_audit"

\* the findings of q that name the table or figure called nome
OfTable(q, kind, nome) == SelectSeq(q, LAMBDA i : i.kind = kind /\ i.table = nome)

\* the page holds the one table Matriculas 2023 and the word Fonte nowhere
MatriculasPage ==
    /\ doc.html
    /\ doc.tables = <<E_Matriculas>>
    /\ ~\E p \in 1..Len(doc.text) : WordAt(doc.text, p, W_fonte)

\* C12: for the page whose one table has the caption "Tabela 1 - Matriculas
\* 2023", the headers Curso, 2023 and the row Direito, 100, with no "Fonte:"
\* anywhere and the base year 2024, the findings of that table hold a FAIL for
\* the missing source and a FAIL of the year rule, and hold no finding of the
\* totals and none of the variation.
C12_EndToEnd ==
    (AuditRan /\ MatriculasPage /\ base_year = 2024) =>
        /\ status = "ok"
        /\ \E k \in 1..Len(OfTable(issues, "Tabela", T_Matriculas2023)) :
               /\ OfTable(issues, "Tabela", T_Matriculas2023)[k].rule \in SourceIds
               /\ OfTable(issues, "Tabela", T_Matriculas2023)[k].severity = "FAIL"
        /\ \E k \in 1..Len(OfTable(issues, "Tabela", T_Matriculas2023)) :
               /\ OfTable(issues, "Tabela", T_Matriculas2023)[k].rule \in YearIds
               /\ OfTable(issues, "Tabela", T_Matriculas2023)[k].severity = "FAIL"
        /\ OfRules(OfTable(issues, "Tabela", T_Matriculas2023), TotalsIds \cup VariationIds) = <<>>


\* C13: an audit of an empty download, or of a page without tables, returns
\* without raising and returns one finding only, a FAIL of the document:
\* nothing is appended after the FAIL for the missing tables.
C13_NoTablesShortCircuit ==
    (AuditRan /\ (~doc.html \/ doc.tables = <<>>)) =>
        /\ status = "ok"
        /\ Len(issues) = 1
        /\ issues[1].severity = "FAIL"
        /\ issues[1].kind = "Documento"


\* every finding of q stands in the findings returned
AllReturned(q) == \A k \in 1..Len(q) : \E j \in 1..Len(issues) : issues[j] = q[k]

\* the findings of the figures of the page
FigureIssues(d, by) ==
    ConcatAll([i \in 1..Len(d.figures) |->
                  rule_figure_source_required(FigureOf(i, d.figures[i]))
                  \o rule_figure_year_base(FigureOf(i, d.figures[i]), by)])

\* C14: when a rule raises on one table of a page, the audit still completes
\* and returns the findings of every rule on every other table and on every
\* figure.
C14_RuleIsolation ==
    (AuditRan /\ \E i \in 1..Len(doc.tables) : AnalyzeRaises(TableOf(i, doc.tables[i]))) =>
        /\ status = "ok"
        /\ AllReturned(FigureIssues(doc, base_year))
        /\ \A i \in 1..Len(doc.tables) :
               ~AnalyzeRaises(TableOf(i, doc.tables[i]))
                   => AllReturned(AnalyzeIssues(TableOf(i, doc.tables[i]), base_year))


\* the place in analyze_table of the rule that makes a finding of a table
RuleRank(rule) ==
    CASE rule \in {"table_empty", "table_all_zero"} -> 1
      [] rule = "table_without_data" -> 2
      [] rule \in {"blank_cells", "nd_cells"} -> 3
      [] rule \in SourceIds -> 4
      [] rule = "source_format_inconsistency" -> 5
      [] rule \in TotalsIds -> 6
      [] rule \in YearIds -> 7
      [] rule \in FormatIds -> 8
      [] rule = "duplicated_row" -> 9
      [] rule \in VariationIds -> 10
      [] rule \in {"encoding_error", "sigla_multiple_names", "name_multiple_siglas",
                   "irregular_abbreviations", "inconsistent_uppercase"} -> 11
      [] rule = "possible_typos" -> 12

\* the places among the extracted tables of those called nome
PlacesOf(d, nome) == {i \in 1..Len(d.tables) : TableOf(i, d.tables[i]).nome = nome}

TableFindings(q) == SelectSeq(q, LAMBDA i : i.kind = "Tabela")

\* the findings q of the tables stand table after table, and those of one
\* table rule after rule
InTableAndRuleOrder(q, d) ==
    \A k \in 1..Len(q) : \A l \in (k + 1)..Len(q) :
        /\ PlacesOf(d, q[k].table) # {}
        /\ PlacesOf(d, q[l].table) # {}
        /\ MinOf(PlacesOf(d, q[k].table)) <= MaxOf(PlacesOf(d, q[l].table))
        /\ (q[k].table = q[l].table /\ Cardinality(PlacesOf(d, q[k].table)) = 1)
               => RuleRank(q[k].rule) <= RuleRank(q[l].rule)

\* C15: in the list an audit returns, the findings of an earlier table all
\* stand before those of a later table, and the findings of one table stand
\* in the order of the rules of analyze_table.
C15_FindingOrder ==
    (AuditRan /\ status = "ok") => InTableAndRuleOrder(TableFindings(issues), doc)

\* C15's case: the audit of a page with the totals table before the series
\* table returned findings of three rules for the first and two for the second
C15_Witness ==
    /\ AuditRan /\ status = "ok"
    /\ doc.tables = <<E_Total, E_Series>>
    /\ Len(OfTable(issues, "Tabela", TableOf(1, E_Total).nome)) = 3
    /\ Len(OfTable(issues, "Tabela", TableOf(2, E_Series).nome)) = 2


SummaryIds == {"document_ok", "no_tables"}

Summaries(q) == SelectSeq(q, LAMBDA i : i.rule \in SummaryIds)

\* C16: an audit of a downloaded page gives exactly one summary finding and
\* gives it first, PASS document_ok when the page holds a table and FAIL
\* no_tables when it holds none; an audit of a page that was not downloaded
\* gives the one finding FAIL download_failed; no other finding is a PASS.
C16_SummaryFirst ==
    AuditRan =>
        /\ doc.html =>
              /\ Len(Summaries(issues)) = 1
              /\ issues[1] = SummaryIssue(Len(doc.tables))
        /\ ~doc.html =>
              /\ Len(issues) = 1
              /\ issues[1].severity = "FAIL" /\ issues[1].rule = "download_failed"
        /\ \A k \in 1..Len(issues) :
              issues[k].severity = "PASS" => issues[k].rule = "document_ok"


----------------------------------------------------------------------------
(* Claims about the year-base rule (SpecAnalyze) *)

YearRan == pc = "ruled" /\ ran = "rule_year_base_mentions"

\* the years that the name, the headers and the context of a table mention
MentionedYears(tb) ==
    Range(detect_years_in_text(tb.nome)) \cup Range(detect_years_in_text(tb.context_all))
    \cup UNION {Range(detect_years_in_text(tb.headers[i])) : i \in 1..Len(tb.headers)}

Fails(q) == SelectSeq(q, LAMBDA i : i.severity = "FAIL")

\* C17: for a table, time series or not, whose name, headers and context
\* mention a year but never the base year, the year-base rule gives a FAIL.
C17_AbsentBaseYearFails ==
    (YearRan /\ MentionedYears(table) # {} /\ base_year \notin MentionedYears(table))
        => Fails(issues) # <<>>


\* C18: when the name of a table, or else its context, holds an explicit
\* range of years, the year-base rule gives exactly one finding, a FAIL, if
\* the base year lies outside the range, and no finding if it lies inside,
\* whatever other years are mentioned.
C18_ExplicitRange ==
    (YearRan /\ RangeOf(table) # <<>>) =>
        IF Between(RangeOf(table)[1], RangeOf(table)[2], base_year)
        THEN issues = <<>>
        ELSE Len(issues) = 1 /\ issues[1].severity = "FAIL"


----------------------------------------------------------------------------
(* Claims about the variation rule: the compared pairs (SpecSeries) *)

\* C19: every variation finding compares the value of a category in a year
\* with its value in the year just before: the two years of a finding differ
\* by exactly one, also when a value of the category is missing or is no
\* number.
C19_AdjacentYears ==
    SeriesRan =>
        \A k \in 1..Len(issues) : issues[k].detail.y1 = issues[k].detail.y0 + 1


\* the successive pairs of the points of one category
PairsOf(subject, points) ==
    {<<subject, points[k], points[k + 1]>> : k \in 1..(Len(points) - 1)}

ColumnPairs(tb, yrows) ==
    IF Len(yrows) < 2 THEN {}
    ELSE UNION {PairsOf(tb.headers[c], ColumnPoints(yrows, c)) : c \in 2..Len(tb.headers)}

\* the pairs the rule compares: the successive points of each row under year
\* columns, else of each column beside rows that start with a year
ComparedPairs(tb) ==
    IF Len(YearCols(tb.headers)) >= 2
    THEN UNION {PairsOf(normalize_text(tb.rows_raw[i][1]), RowPoints(tb.headers, tb.rows_raw[i])) :
                   i \in 1..Len(tb.rows_raw)}
    ELSE ColumnPairs(tb, YearRows(tb.rows_raw))

IsJump(i, p) ==
    /\ i.rule = "jump_from_zero"
    /\ i.detail.subject = p[1]
    /\ i.detail.y0 = p[2][1]
    /\ i.detail.y1 = p[3][1]

\* C20: when the earlier value of a compared pair is 0, the rule gives no
\* finding made from a percentage for the pair; it gives a WARN jump_from_zero
\* for the pair exactly when the later value is at least 100.
C20_JumpFromZero ==
    SeriesRan =>
        /\ \A k \in 1..Len(issues) :
               (issues[k].detail.v0 = 0 \/ issues[k].rule = "jump_from_zero") =>
                   /\ issues[k].rule = "jump_from_zero"
                   /\ issues[k].severity = "WARN"
                   /\ issues[k].detail.v0 = 0
                   /\ issues[k].detail.v1 >= 100
        /\ is_time_series_table(table).ts =>
               \A p \in ComparedPairs(table) :
                   (p[2][2] = 0 /\ p[3][2] >= 100 * UnitsPerOne)
                       => \E k \in 1..Len(issues) : IsJump(issues[k], p)

\* C20's case: the rule ran on a row that goes from 0 to 1000 and on to a
\* smaller value, and reported the jump
C20_Witness ==
    /\ SeriesRan
    /\ table.headers = <<T_Campus, Y_2022, Y_2023, Y_2024>>
    /\ table.rows_raw = <<<<T_X, N_0, N_1000, N_15>>>>
    /\ \E k \in 1..Len(issues) : issues[k].rule = "jump_from_zero"


----------------------------------------------------------------------------
(* Claims about the totals rule: the tolerance (SpecTotals) *)

\* abs(calc - reported) <= max(1, 0.5% of abs(reported)), in units
WithinTolerance(calc, reported) ==
    \/ Abs(calc - reported) <= UnitsPerOne
    \/ 200 * Abs(calc - reported) <= Abs(reported)

\* C21: a declared total that differs from the computed sum by no more than
\* max(1, 0.5% of the declared total) gets no totals finding, in the check of
\* the total row and in the check of the total column.
C21_TotalsTolerance ==
    TotalsRan =>
        /\ find_total_row_index(table.rows_raw) # 0 =>
               \A c \in 2..Len(table.headers) :
                   LET tr == table.rows_raw[find_total_row_index(table.rows_raw)]
                       declared == IF c <= Len(tr) THEN parse_number_ptbr(tr[c]) ELSE None
                       above == SumAbove(table.rows_raw, find_total_row_index(table.rows_raw) - 1, c)
                   IN (declared # None /\ WithinTolerance(above.sum, Units(declared)))
                          => ColumnFindings(c) = {}
        /\ \A k \in 1..Len(issues) :
               issues[k].rule = "total_col_mismatch" =>
                   ~WithinTolerance(UnitsPerOne * issues[k].detail.calc,
                                    UnitsPerOne * issues[k].detail.reported)


----------------------------------------------------------------------------
(* Claims about is_time_series_table (SpecAnalyze) *)

Classified == pc = "classified" /\ ran = "is_time_series_table"

\* the rows of a table whose first cell is a bare year
YearStarts(tb) ==
    {i \in 1..Len(tb.rows_raw) : tb.rows_raw[i] # <<>> /\ YearRe(normalize_text(tb.rows_raw[i][1]))}

\* C22: a table with fewer than two year headers and no explicit year range
\* is classified as a time series only if at least 2 of its rows and at
\* least 60% of its rows start with a bare year.
C22_FirstColumnCriterion ==
    (/\ Classified
     /\ Len(YearCols(table.headers)) < 2
     /\ detect_year_range(table.nome) = <<>>
     /\ detect_year_range(table.context_all) = <<>>
     /\ status # "")
        => /\ Cardinality(YearStarts(table)) >= 2
           /\ 10 * Cardinality(YearStarts(table)) >= 6 * Len(table.rows_raw)


----------------------------------------------------------------------------
(* Claims about the cell rules of analyze_table (SpecAnalyze) *)

HasNdCell(tb) == \E k \in 1..Len(AllCells(tb.rows_raw)) : CellMark(AllCells(tb.rows_raw)[k]) = "nd"

\* the text holds a footnote "ND: ..." or the phrase "nao disponivel" (accented)
ExplainsNd(t) == ContainsWord(t, W_nd \o <<":">>) \/ ContainsWord(t, W_nao_disponivel)

\* C23: a table with an ND cell gets one ND finding, a WARN when its context
\* holds a footnote "ND: ..." or the phrase "nao disponivel" (accented), a
\* FAIL otherwise.
C23_NdSeverity ==
    (AnalyzeRan /\ HasNdCell(table)) =>
        /\ Len(OfRules(issues, {"nd_cells"})) = 1
        /\ OfRules(issues, {"nd_cells"})[1].severity =
               (IF ExplainsNd(table.context_all) THEN "WARN" ELSE "FAIL")


\* ^\d+,\d+$
CommaDecimal(t) ==
    \E p \in 2..(Len(t) - 1) :
        t[p] = "," /\ \A i \in 1..Len(t) : i # p => t[i] \in Digits

HasDecimalDot(tb) == Suspicious(AllCells(tb.rows_raw)) # <<>>

HasCommaDecimal(tb) ==
    \E k \in 1..Len(AllCells(tb.rows_raw)) : CommaDecimal(normalize_text(AllCells(tb.rows_raw)[k]))

HasThousandMix(tb) == detect_thousand_inconsistency(AllCells(tb.rows_raw))

\* C24: a table where a decimal with a point stands beside a decimal with a
\* comma gets a FAIL; a table where a grouped integer stands beside a plain
\* integer of four or more digits gets a WARN; a table with both gets both
\* findings.
C24_SeparatorInconsistency ==
    AnalyzeRan =>
        /\ (HasDecimalDot(table) /\ HasCommaDecimal(table)) =>
               \E k \in 1..Len(issues) : issues[k].rule \in FormatIds /\ issues[k].severity = "FAIL"
        /\ HasThousandMix(table) =>
               \E k \in 1..Len(issues) :
                   issues[k].rule = "thousand_separator_inconsistency" /\ issues[k].severity = "WARN"
        /\ (HasDecimalDot(table) /\ HasCommaDecimal(table) /\ HasThousandMix(table)) =>
               Len(OfRules(issues, FormatIds)) = 2


CitesSourceInside(tb) ==
    \E k \in 1..Len(AllCells(tb.rows_raw)) : HoldsFonteColon(AllCells(tb.rows_raw)[k])

\* C25: a table with a cell of its body or footer that holds "Fonte: X" is
\* taken to have a source: it gets no missing-source finding, also when
\* neither its caption nor a neighbouring block cites one.
C25_SourceInsideTable ==
    (AnalyzeRan /\ CitesSourceInside(table)) => OfRules(issues, SourceIds) = <<>>


----------------------------------------------------------------------------
(* Claims about the extraction from the markup (SpecDom) *)

Collected == pc = "collected" /\ ran = "collect_neighbor_text"

HeadingTags == {"h1", "h2", "h3", "h4", "h5", "h6"}
BoundaryTags == {"table", "figure"} \cup HeadingTags

\* the collected text holds the text of the node
Gives(text, n) == normalize_text(n.text) # <<>> /\ Contains(text, normalize_text(n.text))

\* C26: the context collected for a node holds text of at most 5 siblings
\* before it and at most 10 after it, and none of a sibling that is a table,
\* a figure or a heading, nor of a sibling beyond such a one.
C26_ContextWindow ==
    Collected =>
        /\ Cardinality({i \in 1..Len(doc.prev) : Gives(res.before, doc.prev[i])}) <= 5
        /\ Cardinality({i \in 1..Len(doc.next) : Gives(res.after, doc.next[i])}) <= 10
        /\ \A i \in 1..Len(doc.prev) :
               Gives(res.before, doc.prev[i])
                   => \A j \in i..Len(doc.prev) : doc.prev[j].name \notin BoundaryTags
        /\ \A i \in 1..Len(doc.next) :
               Gives(res.after, doc.next[i])
                   => \A j \in 1..i : doc.next[j].name \notin BoundaryTags


Extracted == pc = "extracted" /\ ran = "extract_headers_and_rows"

\* row is what is left of the cells of a <tr> without its trailing empty cells
TrimmedFrom(row, tr) ==
    /\ Len(row) <= Len(tr)
    /\ \A k \in 1..Len(row) : row[k] = normalize_text(tr[k].text)
    /\ \A k \in (Len(row) + 1)..Len(tr) : normalize_text(tr[k].text) = <<>>

\* C27: every row the extractor gives is a non-empty sequence whose last
\* cell is not the empty string, and is a <tr> of the markup without its
\* trailing empty cells: rows keep their own widths.
C27_ExtractionInvariant ==
    Extracted =>
        \A i \in 1..Len(table.rows_raw) :
            /\ table.rows_raw[i] # <<>>
            /\ table.rows_raw[i][Len(table.rows_raw[i])] # <<>>
            /\ \E k \in 1..Len(doc.trs) : TrimmedFrom(table.rows_raw[i], doc.trs[k])

\* C27's case: of three rows the extractor dropped the one left without
\* cells, trimmed the first and kept two rows of different widths
C27_Witness ==
    /\ Extracted
    /\ doc.trs = <<<<Cell("td", T_A), Cell("td", N_10), Cell("td", <<" ">>)>>,
                   <<Cell("td", <<>>)>>,
                   <<Cell("td", T_B), Cell("td", N_10), Cell("td", N_10)>>>>
    /\ table.rows_raw = <<<<T_A, N_10>>, <<T_B, N_10, N_10>>>>


BlankRan == pc = "ruled" /\ ran = "rule_blank_cells"

\* a <td> of the markup is empty after normalization or is a dash
HasEmptyDataCell(el) ==
    \E i \in 1..Len(el.trs) : \E k \in 1..Len(el.trs[i]) :
        el.trs[i][k].tag = "td" /\ is_empty_cell(el.trs[i][k].text)

\* C28: a table with an empty data cell in its markup, wherever the cell
\* stands in its row, gets exactly one WARN blank_cells, whose sample names
\* at most 6 places; a table without such a cell gets none.
C28_BlankCells ==
    BlankRan =>
        IF HasEmptyDataCell(doc)
        THEN /\ Len(OfRules(issues, {"blank_cells"})) = 1
             /\ OfRules(issues, {"blank_cells"})[1].severity = "WARN"
             /\ Len(OfRules(issues, {"blank_cells"})[1].detail.samples) <= 6
        ELSE OfRules(issues, {"blank_cells"}) = <<>>


----------------------------------------------------------------------------
(* Claims about the audit: the encoding rule (SpecAudit) *)

CorrectChars ==
    Range(Lowers) \cup Range(Uppers) \cup Digits \cup Range(Accented)
    \cup {" ", ".", ",", ":", "-", "/", ENDASH, EMDASH}

\* correctly encoded words, one ordinary space apart
PlainText(t) ==
    /\ \A i \in 1..Len(t) : t[i] \in CorrectChars
    /\ normalize_text(t) = t

\* C29: an audit of a page whose rendered text is correctly encoded words
\* separated by ordinary spaces gives no encoding_error finding, neither for
\* the document nor for a row label.
C29_EncodingOnlyOnGarbledText ==
    (AuditRan /\ doc.html /\ PlainText(doc.text)) => OfRules(issues, {"encoding_error"}) = <<>>


----------------------------------------------------------------------------
(* Claims about the check engine (SpecEngine) *)

EngineRan == pc = "checked" /\ ran = "run_all_checks"

\* the ranges "YYYY a YYYY" of the text whose end year is the year before the
\* base year, counted when the base year does not occur in the text
TruncatedRanges(t, by) ==
    IF Contains(t, DigitsOf(by)) THEN 0
    ELSE Cardinality({k \in 1..Len(SeriesEndYears(t, 1)) : SeriesEndYears(t, 1)[k] = by - 1})

\* C30: r1_year_checks returns its results for every text without raising,
\* with one FAIL R1_truncated_series for each range "YYYY a YYYY" that ends
\* the year before the base year while the base year is not in the text; and
\* run_all_checks goes on to R2 and returns the results of both.
C30_TruncatedSeriesReported ==
    EngineRan =>
        /\ ~res.raised
        /\ Len(OfRules(res.issues, {"R1_truncated_series"})) = TruncatedRanges(doc.text, base_year)
        /\ \A k \in 1..Len(res.issues) :
               res.issues[k].rule = "R1_truncated_series" => res.issues[k].severity = "FAIL"
        /\ status = "returned"
        /\ issues = res.issues \o r2_decimal_separator(doc.text)

====
